---- MODULE Spec2Model ----
(***************************************************************************)
(* Model of the schema-aware query engine of graph-rag-study:              *)
(*   src/src/sql/executor.py   ParallelExecutor (partition planning,       *)
(*                             SQL rewriting, thread-pool fan-out/fan-in)  *)
(*   src/src/sql/validator.py  SQLValidator (SELECT gate, EXPLAIN dry-run) *)
(*   src/src/context/graph_rag.py  SchemaGraph lookups                     *)
(***************************************************************************)
EXTENDS Integers, Sequences, FiniteSets, TLC

VARIABLES
    \* ---- partition planner (pure functions of the statement) ----
    psql,       \* the statement handed to _detect_partitions
    pplan,      \* NoPlan before the call, else the outcome of _detect_partitions
    prewritten, \* the partition statements produced so far by _replace_date_range
    \* ---- ParallelExecutor.execute ----
    call,       \* arguments of the call: [sql, parallel, max_workers]
    pc,         \* position of the calling thread
    plan,       \* partitions returned by _detect_partitions
    tasks,      \* the futures submitted to the pool, in submission order
    nthreads,   \* worker threads the pool has spawned
    conns,      \* every connection opened during the call, in opening order
    issued,     \* statements handed to _execute_single, in call order
    snapshot,   \* as_completed: futures already finished when it was entered
    waiter,     \* as_completed: futures finished since, in completion order
    results,    \* local list `results` of _execute_parallel
    errors,     \* local list `errors` of _execute_parallel
    single,     \* the calling thread's own _execute_single invocation
    ret,        \* what execute returned (NoResult while it runs)
    \* ---- SQLValidator ----
    vconn,      \* self._conn: 0 for None, else the id of a connection
    vconns,     \* every connection the validator created: id -> open?
    vcall,      \* the validate call in progress or last finished
    vdb,        \* is the database reachable
    \* ---- SchemaGraph ----
    meta,       \* the loaded metadata: tables and relationships
    graph,      \* the DiGraph built from it: nodes, edges and their attributes
    glookup,    \* the lookup last made and what it returned
    mh,         \* the locals of get_multi_hop_path while its loop runs, and the
                \* number of loop iterations finished
    \* ---- ParallelExecutor.execute_with_limit ----
    lcalls,     \* the calls made so far, each with what it handed to execute
    \* ---- the global ToolHandler of agent/tools.py ----
    handler     \* _handler: is one installed, and what was called last

pvars == <<psql, pplan, prewritten>>
evars == <<call, pc, plan, tasks, nthreads, conns, issued, snapshot, waiter,
           results, errors, single, ret>>
valvars == <<vconn, vconns, vcall, vdb>>
gvars == <<meta, graph, glookup, mh>>
lvars == <<lcalls>>
hvars == <<handler>>
vars == <<pvars, evars, valvars, gvars, lvars, hvars>>

-----------------------------------------------------------------------------
(* Calendar: datetime.strptime / strftime / replace / timedelta arithmetic *)

\* datetime.MAXYEAR: datetime.replace(year=...) raises ValueError above it
MAXYEAR == 9999

IsLeap(y) == (y % 4 = 0 /\ y % 100 # 0) \/ y % 400 = 0

DaysInMonth(y, m) ==
    IF m = 2 THEN (IF IsLeap(y) THEN 29 ELSE 28)
    ELSE IF m \in {4, 6, 9, 11} THEN 30 ELSE 31

DaysBeforeYear(y) ==
    365 * (y - 1) + ((y - 1) \div 4) - ((y - 1) \div 100) + ((y - 1) \div 400)

RECURSIVE DaysBeforeMonth(_, _)
DaysBeforeMonth(y, m) ==
    IF m <= 1 THEN 0 ELSE DaysBeforeMonth(y, m - 1) + DaysInMonth(y, m - 1)

\* datetime.toordinal(): what subtraction and comparison of datetimes use
ToOrdinal(dt) == DaysBeforeYear(dt.year) + DaysBeforeMonth(dt.year, dt.month) + dt.day

\* a date literal 'YYYY-MM-DD' is the three digit groups the regex captured
Lit(y, m, d) == [y |-> y, m |-> m, d |-> d]

\* datetime.strptime(text, "%Y-%m-%d"): ValueError unless a calendar date
Strptime(lit) ==
    IF /\ lit.y >= 1 /\ lit.y <= MAXYEAR
       /\ lit.m >= 1 /\ lit.m <= 12
       /\ lit.d >= 1 /\ lit.d <= DaysInMonth(lit.y, lit.m)
    THEN [ok |-> TRUE, dt |-> [year |-> lit.y, month |-> lit.m, day |-> lit.d]]
    ELSE [ok |-> FALSE, dt |-> [year |-> 0, month |-> 0, day |-> 0]]

\* dt.strftime("%Y-%m-%d")
Strftime(dt) == Lit(dt.year, dt.month, dt.day)

\* (b - a).days
DaysBetween(a, b) == ToOrdinal(b) - ToOrdinal(a)

DtLeq(a, b) == ToOrdinal(a) <= ToOrdinal(b)
DtMin(a, b) == IF DtLeq(a, b) THEN a ELSE b
\* variant: the earlier of the two where the later is asked for
DtMaxTakingEarlier(a, b) == DtMin(a, b)
DtMax(a, b) == IF DtLeq(a, b) THEN b ELSE a

\* dt - timedelta(days=1)
MinusOneDay(dt) ==
    IF dt.day > 1 THEN [dt EXCEPT !.day = dt.day - 1]
    ELSE IF dt.month > 1
         THEN [year |-> dt.year, month |-> dt.month - 1,
               day |-> DaysInMonth(dt.year, dt.month - 1)]
         ELSE [year |-> dt.year - 1, month |-> 12, day |-> 31]

-----------------------------------------------------------------------------
(* SQL text.  A statement is the sequence of its pieces: stretches of text  *)
(* that match neither pattern, and date-range predicates in one of the two  *)
(* supported forms, each with the two date literals the pattern captures.   *)

Text(s) == [kind |-> "text", s |-> s]
\* a BETWEEN predicate as spelled in the statement: the matched text around
\* its two literals (the pattern ignores case and allows any whitespace)
BetweenAs(spelling, lo, hi) ==
    [kind |-> "between", lo |-> lo, hi |-> hi, spelling |-> spelling]
\* the spelling the replacement string of _replace_date_range writes
Between(lo, hi) == BetweenAs("BETWEEN '_' AND '_'", lo, hi)
Range(lo, hi) == [kind |-> "range", lo |-> lo, hi |-> hi]

\* re.search(pattern, sql): index of the leftmost match of one form, 0 if none
FirstOf(sql, kind) ==
    IF \E i \in 1..Len(sql) : sql[i].kind = kind
    THEN CHOOSE i \in 1..Len(sql) :
            /\ sql[i].kind = kind
            /\ \A j \in 1..(i - 1) : sql[j].kind # kind
    ELSE 0

\* a search that takes the leftmost predicate of either form
DetectMatchInTextOrder(sql) ==
    IF \E i \in 1..Len(sql) : sql[i].kind # "text"
    THEN CHOOSE i \in 1..Len(sql) :
            /\ sql[i].kind # "text"
            /\ \A j \in 1..(i - 1) : sql[j].kind = "text"
    ELSE 0

\* the match _detect_partitions works on: BETWEEN is searched first and the
\* >= .. <= form only when no BETWEEN occurs anywhere in the text
DetectMatch(sql) ==
    IF FirstOf(sql, "between") # 0 THEN FirstOf(sql, "between")
    ELSE FirstOf(sql, "range")

ThirtyDays == 30

\* the list [None]: one unit that stands for the statement as it is
NonePartition == [start |-> Lit(0, 0, 0), end |-> Lit(0, 0, 0)]
Unpartitioned == <<NonePartition>>

\* first day of the month after current (current.replace(...)); ValueError
\* when the year would pass datetime.MAXYEAR
NextMonth(current) ==
    IF current.month = 12
    THEN IF current.year + 1 > MAXYEAR
         THEN [ok |-> FALSE, dt |-> current]
         ELSE [ok |-> TRUE, dt |-> [current EXCEPT !.year = current.year + 1, !.month = 1]]
    ELSE [ok |-> TRUE, dt |-> [current EXCEPT !.month = current.month + 1]]

\* the while loop of _detect_partitions
RECURSIVE MonthLoop(_, _, _, _)
MonthLoop(current, start, end, acc) ==
    IF ~DtLeq(current, end) THEN [raised |-> FALSE, partitions |-> acc]
    ELSE LET nm == NextMonth(current) IN
         IF ~nm.ok THEN [raised |-> TRUE, partitions |-> <<>>]
         ELSE LET partition_end == DtMin(MinusOneDay(nm.dt), end)
                  partition_start == DtMax(current, start)
              IN MonthLoop(nm.dt, start, end,
                           Append(acc, [start |-> Strftime(partition_start),
                                        end |-> Strftime(partition_end)]))

\* _detect_partitions with the threshold test written as < instead of <=
DetectPartitionsStrict(sql) ==
    LET i == DetectMatch(sql) IN
    IF i = 0 THEN [raised |-> FALSE, partitions |-> Unpartitioned]
    ELSE LET s == Strptime(sql[i].lo)
             e == Strptime(sql[i].hi)
         IN IF ~s.ok \/ ~e.ok THEN [raised |-> TRUE, partitions |-> <<>>]
            ELSE IF DaysBetween(s.dt, e.dt) < ThirtyDays
                 THEN [raised |-> FALSE, partitions |-> Unpartitioned]
                 ELSE MonthLoop([s.dt EXCEPT !.day = 1], s.dt, e.dt, <<>>)

\* ParallelExecutor._detect_partitions
DetectPartitions(sql) ==
    LET i == DetectMatch(sql) IN
    IF i = 0 THEN [raised |-> FALSE, partitions |-> Unpartitioned]
    ELSE LET s == Strptime(sql[i].lo)
             e == Strptime(sql[i].hi)
         IN IF ~s.ok \/ ~e.ok THEN [raised |-> TRUE, partitions |-> <<>>]
            ELSE IF DaysBetween(s.dt, e.dt) <= ThirtyDays
                 THEN [raised |-> FALSE, partitions |-> Unpartitioned]
                 ELSE MonthLoop([s.dt EXCEPT !.day = 1], s.dt, e.dt, <<>>)

\* re.sub(pattern, replacement, sql): every match of the form is rewritten.
\* A BETWEEN match is replaced as a whole by "BETWEEN 'start' AND 'end'";
\* of a >= .. <= match the groups around the literals are kept
SubAll(sql, kind, start, end) ==
    [i \in 1..Len(sql) |->
        IF sql[i].kind # kind THEN sql[i]
        ELSE IF kind = "between" THEN Between(start, end)
        ELSE [sql[i] EXCEPT !.lo = start, !.hi = end]]

\* ParallelExecutor._replace_date_range
ReplaceDateRange(sql, start, end) ==
    LET replaced == SubAll(sql, "between", start, end) IN
    IF replaced # sql THEN replaced
    ELSE SubAll(sql, "range", start, end)

-----------------------------------------------------------------------------
(* The database as the executor sees it: one table with a date column; a    *)
(* statement returns, in the table's order, the rows that satisfy every     *)
(* date-range predicate of its WHERE clause.                                *)

\* 'YYYY-MM-DD' literals compare as strings, i.e. digit group by digit group
LitKey(lit) == lit.y * 10000 + lit.m * 100 + lit.d

TableRows ==
    << Lit(2024, 3, 5),  Lit(2024, 1, 15), Lit(2024, 1, 31), Lit(2024, 2, 1),
       Lit(2024, 2, 29), Lit(2024, 3, 1),  Lit(2024, 1, 20), Lit(2024, 4, 2) >>

RowMatches(row, sql) ==
    \A i \in 1..Len(sql) :
        sql[i].kind \in {"between", "range"} =>
            /\ LitKey(sql[i].lo) <= LitKey(row)
            /\ LitKey(row) <= LitKey(sql[i].hi)

\* cursor.execute(sql); cursor.fetchall() on a statement the database accepts
FetchAll(sql) ==
    LET Test(row) == RowMatches(row, sql) IN SelectSeq(TableRows, Test)

-----------------------------------------------------------------------------
(* ParallelExecutor.execute                                                 *)

None == "None"

\* statements the executor is driven with
Sel == Text("SELECT * FROM t WHERE d")
ExecStatements ==
    { <<Text("SELECT * FROM t")>>,
      <<Sel, Between(Lit(2024, 1, 15), Lit(2024, 2, 10))>>,
      <<Sel, Between(Lit(2024, 1, 15), Lit(2024, 3, 10))>>,
      <<Sel, Between(Lit(2024, 1, 15), Lit(2024, 2, 14))>>,
      <<Sel, Range(Lit(2024, 1, 15), Lit(2024, 2, 15))>>,
      <<Sel, Between(Lit(2024, 2, 30), Lit(2024, 4, 1))>>,
      <<Sel, Between(Lit(2024, 1, 15), Lit(2024, 3, 10)), Text("AND d"),
             Between(Lit(2024, 1, 1), Lit(2024, 1, 31))>>,
      <<Sel, Between(Lit(9999, 11, 15), Lit(9999, 12, 31))>> }

\* max_workers values the executor is constructed with
MaxWorkersBound == 2

\* one invocation of _execute_single: the statement, how far it got, the
\* connection it opened (0: none), how it ended and the rows it fetched; for
\* a future, its place in the order in which the futures finished (0 until
\* it has) and whether it told as_completed's waiter that it finished
Job(sql, state) ==
    [sql |-> sql, state |-> state, conn |-> 0, outcome |-> None, rows |-> <<>>,
     done_at |-> 0, waited |-> FALSE]

NoJob == Job(<<>>, "unused")

\* pymysql.connect(**self.config): a connection of its own for the caller
NewConn(cs, owner) == Len(cs) + 1

OpenConn(cs, c, owner) ==
    IF c = Len(cs) + 1 THEN Append(cs, [owner |-> {owner}, open |-> TRUE])
    ELSE [cs EXCEPT ![c].owner = @ \cup {owner}]

\* the finally clause of _execute_single
CloseConn(cs, c) == [cs EXCEPT ![c].open = FALSE]

\* _execute_single, line 222: connect, or raise without a connection
JobConnect(j, owner, cs, fails) ==
    IF fails THEN [job |-> [j EXCEPT !.state = "returning", !.outcome = "connect_error"],
                   conns |-> cs]
    ELSE LET c == NewConn(cs, owner) IN
         [job |-> [j EXCEPT !.state = "connected", !.conn = c],
          conns |-> OpenConn(cs, c, owner)]

\* _execute_single, lines 224-226: run the statement and fetch, or raise
JobRun(j, fails) ==
    IF fails THEN [j EXCEPT !.state = "executed", !.outcome = "statement_error"]
    ELSE [j EXCEPT !.state = "executed", !.outcome = "ok", !.rows = FetchAll(j.sql)]

\* _execute_single closing its connection only after a successful fetch
JobCloseOnSuccess(j, cs) ==
    [job |-> [j EXCEPT !.state = "returning"],
     conns |-> IF j.outcome = "ok" THEN CloseConn(cs, j.conn) ELSE cs]

\* _execute_single, lines 227-228: close on the way out, success or not
JobClose(j, cs) ==
    [job |-> [j EXCEPT !.state = "returning"], conns |-> CloseConn(cs, j.conn)]

\* a success dict that always reports one partition
SuccessResultOnePartition(data, par, nparts) ==
    [raised |-> FALSE, success |-> TRUE, data |-> data, row_count |-> Len(data),
     error |-> None, parallel |-> par, partitions |-> 1]

\* the dict execute returns on its three normal exits; raised tells a
\* returned dict from an exception that left execute
SuccessResult(data, par, nparts) ==
    [raised |-> FALSE, success |-> TRUE, data |-> data, row_count |-> Len(data),
     error |-> None, parallel |-> par, partitions |-> nparts]

\* execute without its except clause: the exception leaves the call
Propagate(err, par) ==
    [raised |-> TRUE, success |-> FALSE, data |-> <<>>, row_count |-> 0,
     error |-> err, parallel |-> par, partitions |-> 0]

\* a failure dict that reports one partition
FailureResultOnePartition(err, par) ==
    [raised |-> FALSE, success |-> FALSE, data |-> <<>>, row_count |-> 0,
     error |-> err, parallel |-> par, partitions |-> 1]

\* execute, lines 98-111: any exception becomes a failure dict
FailureResult(err, par) ==
    [raised |-> FALSE, success |-> FALSE, data |-> <<>>, row_count |-> 0,
     error |-> err, parallel |-> par, partitions |-> 0]

\* placeholders of the right shape for "no call yet" and "not returned yet"
NoCall == [sql |-> <<>>, parallel |-> FALSE, max_workers |-> 0]
NoResult == [raised |-> FALSE, success |-> FALSE, data |-> <<>>, row_count |-> 0,
             error |-> None, parallel |-> FALSE, partitions |-> 0 - 1]
NoPlan == [raised |-> FALSE, partitions |-> <<>>]

InitExec ==
    /\ call = NoCall
    /\ pc = "idle"
    /\ plan = <<>>
    /\ tasks = <<>>
    /\ nthreads = 0
    /\ conns = <<>>
    /\ issued = <<>>
    /\ snapshot = {}
    /\ waiter = <<>>
    /\ results = <<>>
    /\ errors = <<>>
    /\ single = NoJob
    /\ ret = NoResult

\* an execute that asks the planner whatever the parallel argument says
ConsultsPlannerAlways(parallel) == TRUE

\* execute, line 47: the planner is asked only when parallel is set
ConsultsPlanner(parallel) == parallel

\* execute(sql, parallel) up to the point where a statement is issued
Call(sql, parallel, max_workers) ==
    /\ pc = "idle"
    /\ call' = [sql |-> sql, parallel |-> parallel, max_workers |-> max_workers]
    /\ LET d == DetectPartitions(sql) IN
       IF ~ConsultsPlanner(parallel)
       THEN /\ pc' = "single"
            /\ single' = Job(sql, "started")
            /\ issued' = <<sql>>
            /\ UNCHANGED <<plan, ret>>
       ELSE IF d.raised
       THEN /\ pc' = "done"
            /\ ret' = FailureResult("ValueError", parallel)
            /\ UNCHANGED <<plan, single, issued>>
       ELSE IF Len(d.partitions) <= 1
       THEN /\ pc' = "single"
            /\ single' = Job(sql, "started")
            /\ issued' = <<sql>>
            /\ plan' = d.partitions
            /\ UNCHANGED ret
       ELSE /\ pc' = "submit"
            /\ plan' = d.partitions
            /\ UNCHANGED <<single, issued, ret>>
    /\ UNCHANGED <<tasks, nthreads, conns, snapshot, waiter, results, errors>>
    /\ UNCHANGED <<pvars, valvars, gvars, lvars, hvars>>

\* the unpartitioned run, in the calling thread
SingleConnect(fails) ==
    /\ pc = "single" /\ single.state = "started"
    /\ LET r == JobConnect(single, 0, conns, fails) IN
       /\ single' = r.job
       /\ conns' = r.conns
    /\ UNCHANGED <<call, pc, plan, tasks, nthreads, issued, snapshot, waiter,
                   results, errors, ret>>
    /\ UNCHANGED <<pvars, valvars, gvars, lvars, hvars>>

SingleRun(fails) ==
    /\ pc = "single" /\ single.state = "connected"
    /\ single' = JobRun(single, fails)
    /\ UNCHANGED <<call, pc, plan, tasks, nthreads, conns, issued, snapshot,
                   waiter, results, errors, ret>>
    /\ UNCHANGED <<pvars, valvars, gvars, lvars, hvars>>

SingleClose ==
    /\ pc = "single" /\ single.state = "executed"
    /\ LET r == JobClose(single, conns) IN
       /\ single' = r.job
       /\ conns' = r.conns
    /\ UNCHANGED <<call, pc, plan, tasks, nthreads, issued, snapshot, waiter,
                   results, errors, ret>>
    /\ UNCHANGED <<pvars, valvars, gvars, lvars, hvars>>

\* lines 49-61 / 68-80 on a normal return, lines 98-111 on an exception
SingleReturn ==
    /\ pc = "single" /\ single.state = "returning"
    /\ single' = [single EXCEPT !.state = "finished"]
    /\ ret' = IF single.outcome = "ok"
              THEN SuccessResult(single.rows, FALSE, 1)
              ELSE FailureResult(single.outcome, call.parallel)
    /\ pc' = "done"
    /\ UNCHANGED <<call, plan, tasks, nthreads, conns, issued, snapshot, waiter,
                   results, errors>>
    /\ UNCHANGED <<pvars, valvars, gvars, lvars, hvars>>

-----------------------------------------------------------------------------
(* _execute_parallel: the pool, the worker threads and the collecting loop  *)

TaskIds == 1..Len(tasks)

\* a worker thread is inside _execute_single for this future
Running(i) == tasks[i].state \in {"started", "connected", "executed", "returning"}

\* Future.done()
FutureDone(i) == tasks[i].state = "finished"

NumRunning == Cardinality({i \in TaskIds : Running(i)})

\* a pool that starts a thread for every submitted work item
AdjustThreadCountUnbounded(n, max_workers) == n + 1

\* ThreadPoolExecutor._adjust_thread_count: a thread is added per submit
\* until max_workers threads exist
AdjustThreadCount(n, max_workers) == IF n < max_workers THEN n + 1 ELSE n

\* a spawned worker thread is free to take the next work item
WorkerFree == NumRunning < nthreads

\* lines 174-181: rewrite the statement for the next partition and submit it
Submit ==
    /\ pc = "submit" /\ Len(tasks) < Len(plan)
    /\ LET p == plan[Len(tasks) + 1] IN
       tasks' = Append(tasks, Job(ReplaceDateRange(call.sql, p.start, p.end), "pending"))
    /\ nthreads' = AdjustThreadCount(nthreads, call.max_workers)
    /\ UNCHANGED <<call, pc, plan, conns, issued, snapshot, waiter, results,
                   errors, single, ret>>
    /\ UNCHANGED <<pvars, valvars, gvars, lvars, hvars>>

\* a worker takes the oldest queued work item and calls _execute_single
Pick(i) ==
    /\ i \in TaskIds /\ tasks[i].state = "pending"
    /\ \A j \in 1..(i - 1) : tasks[j].state # "pending"
    /\ WorkerFree
    /\ tasks' = [tasks EXCEPT ![i].state = "started"]
    /\ issued' = Append(issued, tasks[i].sql)
    /\ UNCHANGED <<call, pc, plan, nthreads, conns, snapshot, waiter, results,
                   errors, single, ret>>
    /\ UNCHANGED <<pvars, valvars, gvars, lvars, hvars>>

TaskConnect(i, fails) ==
    /\ i \in TaskIds /\ tasks[i].state = "started"
    /\ LET r == JobConnect(tasks[i], i, conns, fails) IN
       /\ tasks' = [tasks EXCEPT ![i] = r.job]
       /\ conns' = r.conns
    /\ UNCHANGED <<call, pc, plan, nthreads, issued, snapshot, waiter, results,
                   errors, single, ret>>
    /\ UNCHANGED <<pvars, valvars, gvars, lvars, hvars>>

TaskRun(i, fails) ==
    /\ i \in TaskIds /\ tasks[i].state = "connected"
    /\ tasks' = [tasks EXCEPT ![i] = JobRun(tasks[i], fails)]
    /\ UNCHANGED <<call, pc, plan, nthreads, conns, issued, snapshot, waiter,
                   results, errors, single, ret>>
    /\ UNCHANGED <<pvars, valvars, gvars, lvars, hvars>>

TaskClose(i) ==
    /\ i \in TaskIds /\ tasks[i].state = "executed"
    /\ LET r == JobClose(tasks[i], conns) IN
       /\ tasks' = [tasks EXCEPT ![i] = r.job]
       /\ conns' = r.conns
    /\ UNCHANGED <<call, pc, plan, nthreads, issued, snapshot, waiter, results,
                   errors, single, ret>>
    /\ UNCHANGED <<pvars, valvars, gvars, lvars, hvars>>

\* the work item sets the future's result or exception; a waiter installed
\* by as_completed is notified
TaskFinish(i) ==
    /\ i \in TaskIds /\ tasks[i].state = "returning"
    /\ tasks' = [tasks EXCEPT ![i].state = "finished",
                              ![i].done_at =
                                  Cardinality({j \in TaskIds : tasks[j].done_at > 0}) + 1,
                              ![i].waited = (pc = "collect")]
    /\ waiter' = IF pc = "collect" THEN Append(waiter, i) ELSE waiter
    /\ UNCHANGED <<call, pc, plan, nthreads, conns, issued, snapshot, results,
                   errors, single, ret>>
    /\ UNCHANGED <<pvars, valvars, gvars, lvars, hvars>>

\* line 183, entering as_completed: the futures finished so far are yielded
\* first, in no particular order; the others as they finish
EnterCollect ==
    /\ pc = "submit" /\ Len(tasks) = Len(plan)
    /\ snapshot' = {i \in TaskIds : FutureDone(i)}
    /\ waiter' = <<>>
    /\ pc' = "collect"
    /\ UNCHANGED <<call, plan, tasks, nthreads, conns, issued, results, errors,
                   single, ret>>
    /\ UNCHANGED <<pvars, valvars, gvars, lvars, hvars>>

\* the loop body with results = result in place of results.extend(result)
ConsumeAssign(i) ==
    /\ IF tasks[i].outcome = "ok"
       THEN /\ results' = tasks[i].rows
            /\ UNCHANGED errors
       ELSE /\ errors' = Append(errors, i)
            /\ UNCHANGED results
    /\ tasks' = [tasks EXCEPT ![i].state = "yielded"]

\* lines 184-189: the loop body for the future as_completed yields
Consume(i) ==
    /\ IF tasks[i].outcome = "ok"
       THEN /\ results' = results \o tasks[i].rows
            /\ UNCHANGED errors
       ELSE /\ errors' = Append(errors, i)
            /\ UNCHANGED results
    /\ tasks' = [tasks EXCEPT ![i].state = "yielded"]

\* a loop that takes the futures that finished after it started in any order
CollectInAnyOrder(i) ==
    /\ pc = "collect"
    /\ \/ /\ i \in snapshot
          /\ snapshot' = snapshot \ {i}
          /\ UNCHANGED waiter
       \/ /\ snapshot = {}
          /\ \E k \in 1..Len(waiter) :
                /\ waiter[k] = i
                /\ waiter' = SubSeq(waiter, 1, k - 1) \o SubSeq(waiter, k + 1, Len(waiter))
          /\ UNCHANGED snapshot
    /\ Consume(i)
    /\ UNCHANGED <<call, pc, plan, nthreads, conns, issued, single, ret>>
    /\ UNCHANGED <<pvars, valvars, gvars, lvars, hvars>>

\* the for loop over as_completed(futures), lines 183-189
Collect(i) ==
    /\ pc = "collect"
    /\ \/ /\ i \in snapshot
          /\ snapshot' = snapshot \ {i}
          /\ UNCHANGED waiter
       \/ /\ snapshot = {} /\ waiter # <<>> /\ i = Head(waiter)
          /\ waiter' = Tail(waiter)
          /\ UNCHANGED snapshot
    /\ Consume(i)
    /\ UNCHANGED <<call, pc, plan, nthreads, conns, issued, single, ret>>
    /\ UNCHANGED <<pvars, valvars, gvars, lvars, hvars>>

\* leaving as soon as no finished future is waiting to be yielded
PoolDrainedEarly == snapshot = {} /\ waiter = <<>>

\* as_completed is exhausted once every future has been yielded, and the
\* with block's shutdown(wait=True) returns once no work item is left
PoolDrained == \A i \in TaskIds : tasks[i].state = "yielded"

\* lines 191-195 and 84-96: leave the pool and return the merged rows
ParallelReturn ==
    /\ pc = "collect" /\ PoolDrained
    /\ ret' = SuccessResult(results, TRUE, Len(plan))
    /\ pc' = "done"
    /\ UNCHANGED <<call, plan, tasks, nthreads, conns, issued, snapshot, waiter,
                   results, errors, single>>
    /\ UNCHANGED <<pvars, valvars, gvars, lvars, hvars>>

NextExec ==
    \/ \E sql \in ExecStatements, parallel \in BOOLEAN, w \in 1..MaxWorkersBound :
          Call(sql, parallel, w)
    \/ \E fails \in BOOLEAN : SingleConnect(fails)
    \/ \E fails \in BOOLEAN : SingleRun(fails)
    \/ SingleClose
    \/ SingleReturn
    \/ Submit
    \/ \E i \in TaskIds : Pick(i)
    \/ \E i \in TaskIds, fails \in BOOLEAN : TaskConnect(i, fails)
    \/ \E i \in TaskIds, fails \in BOOLEAN : TaskRun(i, fails)
    \/ \E i \in TaskIds : TaskClose(i)
    \/ \E i \in TaskIds : TaskFinish(i)
    \/ EnterCollect
    \/ \E i \in TaskIds : Collect(i)
    \/ ParallelReturn

-----------------------------------------------------------------------------
(* The partition planner on its own: _detect_partitions and                 *)
(* _replace_date_range applied to every statement of a bounded family.      *)

\* calendar years after 2023 the date literals are drawn from
YearSpan == 1
\* most date-range predicates a statement carries
MaxPredicates == 2

SampleYears == 2023..(2023 + YearSpan)
SampleMonths == {1, 2, 3, 11, 12}
SampleDays == {1, 15, 28, 29, 30, 31}

\* literals that match \d{4}-\d{2}-\d{2}; some are no calendar date
LitsOf(years) == {Lit(y, m, d) : y \in years, m \in SampleMonths, d \in SampleDays}

\* the bounds of a predicate: both in the sampled years, or both in the
\* last year datetime can represent
SampleBounds == (LitsOf(SampleYears) \X LitsOf(SampleYears))
                \cup (LitsOf({MAXYEAR}) \X LitsOf({MAXYEAR}))

\* predicates used where a statement carries several
FewPredicates ==
    { Between(Lit(2024, 1, 15), Lit(2024, 3, 10)),
      Between(Lit(2024, 1, 1), Lit(2024, 1, 31)),
      Range(Lit(2024, 1, 20), Lit(2024, 2, 25)),
      Range(Lit(2023, 12, 1), Lit(2024, 2, 29)),
      Between(Lit(2024, 2, 30), Lit(2024, 4, 1)),
      BetweenAs("between '_' and '_'", Lit(2024, 1, 10), Lit(2024, 2, 20)) }

RECURSIVE Where(_)
Where(preds) ==
    IF Len(preds) = 0 THEN <<>>
    ELSE IF Len(preds) = 1 THEN <<preds[1]>>
    ELSE <<preds[1], Text("AND d")>> \o Where(Tail(preds))

Statement(preds) ==
    IF Len(preds) = 0 THEN <<Text("SELECT * FROM t")>> ELSE <<Sel>> \o Where(preds)

PlanStatements ==
    {Statement(<<>>)}
    \cup {Statement(<<Between(b[1], b[2])>>) : b \in SampleBounds}
    \cup {Statement(<<Range(b[1], b[2])>>) : b \in SampleBounds}
    \cup UNION {{Statement(ps) : ps \in [1..n -> FewPredicates]} : n \in 2..MaxPredicates}

InitPlan ==
    /\ psql \in PlanStatements
    /\ pplan = NoPlan
    /\ prewritten = <<>>

\* partitions = self._detect_partitions(sql)
Detect ==
    /\ pplan = NoPlan
    /\ pplan' = DetectPartitions(psql)
    /\ UNCHANGED <<psql, prewritten>>
    /\ UNCHANGED <<evars, valvars, gvars, lvars, hvars>>

\* the rewriting of the next partition's statement in _execute_parallel
Rewrite ==
    /\ ~pplan.raised /\ Len(pplan.partitions) > 1
    /\ Len(prewritten) < Len(pplan.partitions)
    /\ LET p == pplan.partitions[Len(prewritten) + 1] IN
       prewritten' = Append(prewritten, ReplaceDateRange(psql, p.start, p.end))
    /\ UNCHANGED <<psql, pplan>>
    /\ UNCHANGED <<evars, valvars, gvars, lvars, hvars>>

NextPlan == Detect \/ Rewrite

-----------------------------------------------------------------------------
(* Properties of the partition plan                                         *)

\* the range _detect_partitions works on, when both literals are dates
DetectedRange(sql) ==
    LET i == DetectMatch(sql) IN
    IF i = 0 THEN [found |-> FALSE, valid |-> FALSE, days |-> 0]
    ELSE LET s == Strptime(sql[i].lo)
             e == Strptime(sql[i].hi)
         IN [found |-> TRUE, valid |-> s.ok /\ e.ok,
             lo |-> sql[i].lo, hi |-> sql[i].hi,
             days |-> IF s.ok /\ e.ok THEN DaysBetween(s.dt, e.dt) ELSE 0]

LitOrd(lit) == ToOrdinal(Strptime(lit).dt)
IsMonthStart(lit) == lit.d = 1
IsMonthEnd(lit) == lit.d = DaysInMonth(lit.y, lit.m)

\* parts is a chronological tiling of [lo, hi] cut at month boundaries
TilesRange(parts, lo, hi) ==
    /\ Len(parts) >= 1
    /\ parts[1].start = lo
    /\ parts[Len(parts)].end = hi
    /\ \A k \in 1..Len(parts) :
          /\ Strptime(parts[k].start).ok /\ Strptime(parts[k].end).ok
          /\ LitOrd(parts[k].start) <= LitOrd(parts[k].end)
    /\ \A k \in 1..(Len(parts) - 1) :
          /\ LitOrd(parts[k + 1].start) = LitOrd(parts[k].end) + 1
          /\ IsMonthEnd(parts[k].end)
          /\ IsMonthStart(parts[k + 1].start)

WideRange(sql) == DetectedRange(sql).valid /\ DetectedRange(sql).days > ThirtyDays

\* C1: for every statement whose detected range spans more than 30 days,
\* _detect_partitions returns a chronological, gap-free, overlap-free tiling
\* of [start, end] whose inner boundaries are month boundaries.
C1_PartitionsTileRange ==
    (pplan # NoPlan /\ WideRange(psql)) =>
        /\ ~pplan.raised
        /\ TilesRange(pplan.partitions, DetectedRange(psql).lo, DetectedRange(psql).hi)

\* the same, for ranges that end before December of datetime.MAXYEAR
PartitionsTileBelowMaxYear ==
    (pplan # NoPlan /\ WideRange(psql)
       /\ ~(DetectedRange(psql).hi.y = MAXYEAR /\ DetectedRange(psql).hi.m = 12)) =>
        /\ ~pplan.raised
        /\ TilesRange(pplan.partitions, DetectedRange(psql).lo, DetectedRange(psql).hi)

\* the calendar month of a date literal, counted from year 0
MonthNo(lit) == lit.y * 12 + lit.m

\* _detect_partitions returned a month-by-month plan
Partitioned == pplan # NoPlan /\ ~pplan.raised /\ pplan.partitions # Unpartitioned

\* C24: a partitioned plan has exactly one partition per calendar month
\* touched by [start, end], hence at least two; each partition has
\* start <= end and lies within one month; the first runs from start to the
\* last day of start's month, each later one from the first day of its month
\* to the month's last day, or to end if that comes sooner.
C24_OnePartitionPerMonth ==
    Partitioned =>
        LET ps == pplan.partitions
            lo == DetectedRange(psql).lo
            hi == DetectedRange(psql).hi
        IN /\ Len(ps) = MonthNo(hi) - MonthNo(lo) + 1
           /\ Len(ps) >= 2
           /\ \A k \in 1..Len(ps) :
                 /\ MonthNo(ps[k].start) = MonthNo(lo) + k - 1
                 /\ MonthNo(ps[k].end) = MonthNo(ps[k].start)
                 /\ ps[k].start.d <= ps[k].end.d
                 /\ ps[k].start.d >= 1
                 /\ ps[k].end.d <= DaysInMonth(ps[k].end.y, ps[k].end.m)
           /\ ps[1].start = lo /\ IsMonthEnd(ps[1].end)
           /\ \A k \in 2..Len(ps) :
                 /\ IsMonthStart(ps[k].start)
                 /\ IF MonthNo(ps[k].end) = MonthNo(hi)
                    THEN ps[k].end = hi
                    ELSE IsMonthEnd(ps[k].end)

\* a plan over a turn of the year, from the middle of one month to the
\* middle of another, with a February in between
C24_Witness ==
    /\ Partitioned
    /\ Len(pplan.partitions) >= 4
    /\ ~IsMonthStart(DetectedRange(psql).lo)
    /\ ~IsMonthEnd(DetectedRange(psql).hi)
    /\ DetectedRange(psql).lo.y < DetectedRange(psql).hi.y
    /\ \E k \in 1..Len(pplan.partitions) :
          pplan.partitions[k].end.m = 2 /\ pplan.partitions[k].end.d = 29

\* the positions of the date-range predicates of a statement
Predicates(sql) == {i \in 1..Len(sql) : sql[i].kind # "text"}

SeveralPredicates(sql) == Cardinality(Predicates(sql)) >= 2

\* the plan of the statement that has predicate i of sql as its only one
PlanOfPredicateAlone(sql, i) == DetectPartitions(<<Sel, sql[i]>>)

\* C25 as stated: with several supported predicates the plan is derived
\* from exactly one, the predicate that occurs first in the statement text,
\* and the bounds of the others play no part.
C25_FirstInTextDecides ==
    (pplan # NoPlan /\ SeveralPredicates(psql)) =>
        \E i \in Predicates(psql) :
            /\ \A j \in Predicates(psql) : i <= j
            /\ pplan = PlanOfPredicateAlone(psql, i)

\* C25 amended: the plan is derived from exactly one predicate, the first
\* BETWEEN predicate of the text when there is any BETWEEN predicate, and
\* the first >= .. <= predicate otherwise; the others play no part.
C25_FirstBetweenElseFirstRangeDecides ==
    (pplan # NoPlan /\ SeveralPredicates(psql)) =>
        \E i \in Predicates(psql) :
            /\ \A j \in Predicates(psql) :
                  \/ psql[j].kind = psql[i].kind /\ i <= j
                  \/ psql[i].kind = "between" /\ psql[j].kind = "range"
            /\ pplan = PlanOfPredicateAlone(psql, i)

\* a >= .. <= predicate comes first in the text, a BETWEEN predicate with
\* other bounds after it, and the plan has the months of the BETWEEN
C25_Witness ==
    /\ Partitioned /\ SeveralPredicates(psql)
    /\ psql[2].kind = "range" /\ psql[4].kind = "between"
    /\ pplan = PlanOfPredicateAlone(psql, 4)
    /\ pplan # PlanOfPredicateAlone(psql, 2)
    /\ ~PlanOfPredicateAlone(psql, 2).raised
    /\ PlanOfPredicateAlone(psql, 2).partitions # Unpartitioned

\* out is sql with the bounds of predicate i set to [start, end] and
\* nothing else changed
OnlyBoundsOf(sql, out, i, start, end) ==
    /\ Len(out) = Len(sql)
    /\ out[i] = [sql[i] EXCEPT !.lo = start, !.hi = end]
    /\ \A j \in 1..Len(sql) : j # i => out[j] = sql[j]

\* C18: for each partition _replace_date_range changes only the literal
\* bounds of the first matching date-range predicate, to the partition's
\* start and end; every further date-range predicate and all other text of
\* the statement stay as they were.
C18_OnlyFirstPredicateRewritten ==
    \A k \in 1..Len(prewritten) :
        OnlyBoundsOf(psql, prewritten[k], DetectMatch(psql),
                     pplan.partitions[k].start, pplan.partitions[k].end)

\* the statement has one date-range predicate, spelled as the replacement
\* string spells it
OnePlainPredicate(sql) ==
    /\ Cardinality({i \in 1..Len(sql) : sql[i].kind # "text"}) = 1
    /\ \A i \in 1..Len(sql) :
          sql[i].kind = "between" => sql[i] = Between(sql[i].lo, sql[i].hi)

\* with a single predicate in that spelling only its bounds change
RewriteOfOnePlainPredicate ==
    OnePlainPredicate(psql) =>
        \A k \in 1..Len(prewritten) :
            OnlyBoundsOf(psql, prewritten[k], DetectMatch(psql),
                         pplan.partitions[k].start, pplan.partitions[k].end)

\* a rewritten statement in which a second predicate lost its own bounds
SecondPredicateRewritten ==
    \E k \in 1..Len(prewritten) : \E j \in 1..Len(psql) :
        /\ j # DetectMatch(psql)
        /\ psql[j].kind # "text"
        /\ prewritten[k][j].lo # psql[j].lo

-----------------------------------------------------------------------------
(* Properties of ParallelExecutor.execute                                   *)

Returned == pc = "done"

\* no supported predicate, or a detected range of at most 30 days
NarrowOrNoRange(sql) ==
    \/ ~DetectedRange(sql).found
    \/ DetectedRange(sql).valid /\ DetectedRange(sql).days <= ThirtyDays

\* C2 as stated: with no supported predicate or a range of at most 30 days,
\* execute(sql, parallel=True) issues exactly the original statement and
\* reports parallel=False and partitions=1.
C2_SinglePlanReportsOne ==
    (Returned /\ call.parallel /\ NarrowOrNoRange(call.sql)) =>
        /\ issued = <<call.sql>>
        /\ ret.parallel = FALSE
        /\ ret.partitions = 1

\* C2 amended: exactly the original statement is issued, once; the result
\* reports parallel=False and partitions=1 when that statement completes,
\* and success=False, parallel=True, partitions=0 when it raises.
C2_SinglePlanIssuesOriginal ==
    (Returned /\ call.parallel /\ NarrowOrNoRange(call.sql)) =>
        /\ issued = <<call.sql>>
        /\ plan = Unpartitioned
        /\ tasks = <<>>
        /\ IF single.outcome = "ok"
           THEN ret.success /\ ret.parallel = FALSE /\ ret.partitions = 1
           ELSE ~ret.success /\ ret.parallel = TRUE /\ ret.partitions = 0

C2_Witness ==
    /\ Returned /\ call.parallel
    /\ DetectedRange(call.sql).found
    /\ DetectedRange(call.sql).days = ThirtyDays
    /\ ret.success /\ Len(ret.data) > 0

Split == Len(tasks) > 1
NoPartitionFailed == \A i \in TaskIds : tasks[i].outcome = "ok"

\* C3: when execute splits a statement and no partition fails, the merged
\* result has as many rows as the original statement returns unpartitioned.
C3_RoundTripRowCount ==
    (Returned /\ Split /\ NoPartitionFailed) =>
        ret.row_count = Len(FetchAll(call.sql))

\* the round trip for statements with a single date-range predicate
RoundTripSinglePredicate ==
    (Returned /\ Split /\ NoPartitionFailed
       /\ Cardinality({i \in 1..Len(call.sql) : call.sql[i].kind # "text"}) = 1) =>
        ret.row_count = Len(FetchAll(call.sql))

OkTasks == {i \in TaskIds : tasks[i].outcome = "ok"}

Orders(S) ==
    {f \in [1..Cardinality(S) -> S] : \A a, b \in 1..Cardinality(S) : a # b => f[a] # f[b]}

RECURSIVE RowsInOrder(_)
RowsInOrder(order) ==
    IF Len(order) = 0 THEN <<>>
    ELSE tasks[Head(order)].rows \o RowsInOrder(Tail(order))

\* C4: in a partitioned execute a partition that raises contributes no rows
\* and leaves the others alone: every partition is run, the call returns
\* success with no error, and the data are the rows of exactly the
\* partitions that succeeded (none when all failed).
C4_PartialFailureTolerated ==
    (Returned /\ Split) =>
        /\ ret.success /\ ret.error = None
        /\ Len(tasks) = Len(plan)
        /\ \A i \in TaskIds : tasks[i].state = "yielded"
        /\ \A i \in OkTasks : tasks[i].rows = FetchAll(tasks[i].sql)
        /\ \E order \in Orders(OkTasks) : ret.data = RowsInOrder(order)
        /\ ret.row_count = Len(ret.data)
        /\ (OkTasks = {} => ret.data = <<>> /\ ret.row_count = 0)

C4_Witness ==
    /\ Returned /\ Split
    /\ \E i \in TaskIds : tasks[i].outcome = "statement_error"
    /\ Cardinality({i \in OkTasks : Len(tasks[i].rows) > 0}) >= 2
    /\ ret.success /\ ret.row_count > 0

C4_WitnessAllFailed ==
    Returned /\ Split /\ OkTasks = {} /\ ret.success

\* the successful tasks in the order in which their futures finished
RECURSIVE ByCompletion(_)
ByCompletion(S) ==
    IF S = {} THEN <<>>
    ELSE LET first == CHOOSE i \in S : \A j \in S : tasks[i].done_at <= tasks[j].done_at
         IN <<first>> \o ByCompletion(S \ {first})

\* every successful partition fetched the complete rows of its statement,
\* in the database's order
CompleteRowLists == \A i \in OkTasks : tasks[i].rows = FetchAll(tasks[i].sql)

RECURSIVE TotalRows(_)
TotalRows(S) ==
    IF S = {} THEN 0
    ELSE LET i == CHOOSE j \in S : TRUE IN Len(tasks[i].rows) + TotalRows(S \ {i})

\* C26 as stated: the data of a partitioned execute are the complete row
\* lists of exactly the successful partitions, each once and contiguous,
\* concatenated in the order in which the tasks completed.
C26_MergedInCompletionOrder ==
    (Returned /\ Split) =>
        /\ CompleteRowLists
        /\ ret.data = RowsInOrder(ByCompletion(OkTasks))

\* the order as_completed yields in: futures that had finished when the
\* loop started come first, in any order, then the others as they finished
YieldOrder(order) ==
    \A a, b \in 1..Len(order) :
        (a < b /\ tasks[order[a]].waited) =>
            /\ tasks[order[b]].waited
            /\ tasks[order[a]].done_at < tasks[order[b]].done_at

\* C26 amended: the same, concatenated in the order as_completed yields the
\* futures, which is completion order only for the futures that finish
\* after the collecting loop has started.
C26_MergedInYieldOrder ==
    (Returned /\ Split) =>
        /\ CompleteRowLists
        /\ Len(ret.data) = TotalRows(OkTasks)
        /\ \E order \in Orders(OkTasks) :
              YieldOrder(order) /\ ret.data = RowsInOrder(order)

\* two partitions with rows finished while the loop was waiting, the later
\* partition of the plan first, and one partition failed
C26_Witness ==
    /\ Returned /\ Split
    /\ \E i, j \in OkTasks :
          /\ i < j /\ tasks[j].done_at < tasks[i].done_at
          /\ tasks[i].waited /\ tasks[j].waited
          /\ Len(tasks[i].rows) > 0 /\ Len(tasks[j].rows) > 0
          /\ ret.data = tasks[j].rows \o tasks[i].rows
    /\ \E k \in TaskIds : tasks[k].outcome # "ok"

\* two partitions had finished before the loop started and their rows were
\* merged against the order in which they finished
MergedAgainstCompletionOrder ==
    /\ Returned /\ Split
    /\ \E i, j \in OkTasks :
          /\ tasks[i].done_at < tasks[j].done_at
          /\ ~tasks[i].waited /\ ~tasks[j].waited
          /\ Len(tasks[i].rows) > 0 /\ Len(tasks[j].rows) > 0
          /\ ret.data = tasks[j].rows \o tasks[i].rows

\* the statement's date literals matched the pattern but are no dates
InvalidDateParsed ==
    call.parallel /\ DetectedRange(call.sql).found /\ ~DetectedRange(call.sql).valid

\* the month loop was asked to step past December of datetime.MAXYEAR
PastMaxYear ==
    /\ call.parallel /\ WideRange(call.sql)
    /\ DetectedRange(call.sql).hi.y = MAXYEAR /\ DetectedRange(call.sql).hi.m = 12

\* the unpartitioned run was started and raised
SingleRunFailed == single.state = "finished" /\ single.outcome # "ok"

\* C29: execute never raises; an exception outside a partition task (the
\* unpartitioned run fails, or a date literal that matches the pattern is no
\* calendar date) gives success=false, data=[], row_count=0, an error text
\* and partitions=0; and every result has row_count = len(data) and a null
\* error exactly when success is true.
C29_ExecuteNeverRaises ==
    /\ ~ret.raised
    /\ Returned =>
          /\ ret.row_count = Len(ret.data)
          /\ ret.error = None <=> ret.success
          /\ (SingleRunFailed \/ InvalidDateParsed \/ PastMaxYear) =>
                /\ ~ret.success
                /\ ret.data = <<>> /\ ret.row_count = 0
                /\ ret.error # None
                /\ ret.partitions = 0

\* a date literal that is no date made the planner raise
C29_Witness ==
    /\ Returned /\ InvalidDateParsed
    /\ ~ret.success /\ ret.error = "ValueError" /\ ret.partitions = 0
    /\ conns = <<>>

\* the statement of the unpartitioned run was refused by the database
C29_WitnessRunFailed ==
    /\ Returned /\ SingleRunFailed /\ single.outcome = "statement_error"
    /\ ~ret.success /\ ret.error = "statement_error"

\* the month loop raised at the end of the last year
C29_WitnessPastMaxYear ==
    Returned /\ PastMaxYear /\ ~ret.success /\ ret.error = "ValueError"

ConnIds == 1..Len(conns)
OpenConns == {c \in ConnIds : conns[c].open}

\* C5: every partition task opens a connection of its own, no connection
\* is used by two tasks, a task's connection is closed by the time the task
\* has finished whether it succeeded or raised, and no connection is open
\* once execute has returned.
C5_ConnectionPerTask ==
    /\ \A c \in ConnIds : Cardinality(conns[c].owner) = 1
    /\ \A i \in TaskIds :
          /\ tasks[i].state \in {"connected", "executed"} =>
                /\ tasks[i].conn \in ConnIds
                /\ conns[tasks[i].conn].owner = {i}
                /\ conns[tasks[i].conn].open
          /\ tasks[i].state \in {"finished", "yielded"} =>
                (tasks[i].conn # 0 => ~conns[tasks[i].conn].open)
    /\ \A i, j \in TaskIds :
          (i # j /\ tasks[i].conn # 0) => tasks[i].conn # tasks[j].conn
    /\ Returned => OpenConns = {}

C5_Witness ==
    /\ Returned /\ Split
    /\ \E i \in TaskIds : tasks[i].outcome = "statement_error" /\ tasks[i].conn # 0
    /\ \E i \in TaskIds : tasks[i].outcome = "ok"
    /\ Len(conns) >= 2

\* C6: when execute returns, no submitted partition task is pending or
\* running, whatever the interleaving of the worker threads.
C6_ReturnsAfterAllTasks ==
    Returned =>
        /\ Len(tasks) = (IF Len(plan) > 1 THEN Len(plan) ELSE 0)
        /\ \A i \in TaskIds : tasks[i].state # "pending" /\ ~Running(i)

C6_Witness == Returned /\ Len(tasks) >= 3 /\ call.max_workers = 1

\* C7: at most max_workers partition tasks run at the same time, and at
\* most max_workers connections are open at the same time.
C7_BoundedPool ==
    call # NoCall =>
        /\ NumRunning <= call.max_workers
        /\ Cardinality(OpenConns) <= call.max_workers

C7_Witness ==
    /\ Len(tasks) > call.max_workers
    /\ NumRunning = call.max_workers
    /\ Cardinality(OpenConns) = call.max_workers
    /\ \E i \in TaskIds : tasks[i].state = "pending"

\* C19 as stated: in every result of execute, success or failure,
\* execution_info.parallel is true exactly when the statement was run as
\* separate partition statements, and execution_info.partitions is the
\* number of statements handed over for execution.
C19_InfoMatchesRun ==
    Returned =>
        /\ ret.parallel <=> Split
        /\ ret.partitions = Len(issued)

\* C19 amended: a success result reports parallel exactly when the
\* statement was run as partition statements, and partitions is the number
\* of statements handed over (1 unpartitioned, the plan's length
\* partitioned); a failure result reports the parallel argument as passed
\* and partitions=0, and comes only from planning or the unpartitioned run.
C19_InfoBySuccess ==
    Returned =>
        IF ret.success
        THEN /\ ret.parallel <=> Split
             /\ ret.partitions = Len(issued)
             /\ ret.partitions = IF Split THEN Len(plan) ELSE 1
        ELSE /\ ret.parallel = call.parallel
             /\ ret.partitions = 0
             /\ ~Split
             /\ Len(issued) <= 1

\* an unpartitioned run asked for with parallel=True has failed
C19_Witness ==
    /\ Returned /\ call.parallel /\ ~ret.success
    /\ issued = <<call.sql>>
    /\ ret.parallel

\* a partitioned run has returned
C19_WitnessSplit ==
    Returned /\ Split /\ ret.success /\ ret.partitions = 3

\* C20 as stated: execute(sql, parallel=False) never asks the planner; for
\* every sql it opens one connection, executes the given text once, closes
\* the connection and returns all rows of that statement.
C20_NonParallelRunsOnce ==
    (Returned /\ ~call.parallel) =>
        /\ plan = <<>> /\ tasks = <<>>
        /\ issued = <<call.sql>>
        /\ Len(conns) = 1 /\ ~conns[1].open
        /\ single.outcome = "ok"
        /\ ret.success /\ ret.data = FetchAll(call.sql)

\* C20 amended: execute(sql, parallel=False) never asks the planner and
\* hands the given text, once, to _execute_single.  When the connect
\* succeeds exactly one connection is opened, the text is executed on it
\* once and the connection is closed, whether the statement raised or not;
\* all rows come back when it did not raise.  When the connect or the
\* statement raises the result is success=False with the error, no rows,
\* parallel=False and partitions=0, and a failed connect leaves no
\* connection.
C20_NonParallelRunsOnceOrFails ==
    (Returned /\ ~call.parallel) =>
        /\ plan = <<>> /\ tasks = <<>>
        /\ issued = <<call.sql>>
        /\ single.sql = call.sql
        /\ IF single.outcome = "connect_error"
           THEN conns = <<>>
           ELSE Len(conns) = 1 /\ ~conns[1].open /\ single.conn = 1
        /\ IF single.outcome = "ok"
           THEN /\ ret.success /\ ret.error = None
                /\ ret.data = FetchAll(call.sql)
                /\ ret.row_count = Len(ret.data)
                /\ ~ret.parallel /\ ret.partitions = 1
           ELSE /\ ~ret.success /\ ret.error = single.outcome
                /\ ret.data = <<>> /\ ret.row_count = 0
                /\ ~ret.parallel /\ ret.partitions = 0

\* a range of more than 30 days was run as one statement
C20_Witness ==
    /\ Returned /\ ~call.parallel
    /\ WideRange(call.sql)
    /\ ret.success /\ Len(ret.data) > 0
    /\ Len(conns) = 1

\* date literals that are no calendar dates went to the database as they are
C20_WitnessInvalidDate ==
    /\ Returned /\ ~call.parallel
    /\ DetectedRange(call.sql).found /\ ~DetectedRange(call.sql).valid
    /\ ret.success

-----------------------------------------------------------------------------
(* Text as Python sees it: a sequence of characters                         *)

\* str.upper() and str.lower(), character by character
UpperChar(c) ==
    CASE c = "a" -> "A"
    [] c = "b" -> "B"
    [] c = "c" -> "C"
    [] c = "d" -> "D"
    [] c = "e" -> "E"
    [] c = "f" -> "F"
    [] c = "g" -> "G"
    [] c = "h" -> "H"
    [] c = "i" -> "I"
    [] c = "j" -> "J"
    [] c = "k" -> "K"
    [] c = "l" -> "L"
    [] c = "m" -> "M"
    [] c = "n" -> "N"
    [] c = "o" -> "O"
    [] c = "p" -> "P"
    [] c = "q" -> "Q"
    [] c = "r" -> "R"
    [] c = "s" -> "S"
    [] c = "t" -> "T"
    [] c = "u" -> "U"
    [] c = "v" -> "V"
    [] c = "w" -> "W"
    [] c = "x" -> "X"
    [] c = "y" -> "Y"
    [] c = "z" -> "Z"
    [] OTHER -> c

LowerChar(c) ==
    CASE c = "A" -> "a"
    [] c = "B" -> "b"
    [] c = "C" -> "c"
    [] c = "D" -> "d"
    [] c = "E" -> "e"
    [] c = "F" -> "f"
    [] c = "G" -> "g"
    [] c = "H" -> "h"
    [] c = "I" -> "i"
    [] c = "J" -> "j"
    [] c = "K" -> "k"
    [] c = "L" -> "l"
    [] c = "M" -> "m"
    [] c = "N" -> "n"
    [] c = "O" -> "o"
    [] c = "P" -> "p"
    [] c = "Q" -> "q"
    [] c = "R" -> "r"
    [] c = "S" -> "s"
    [] c = "T" -> "t"
    [] c = "U" -> "u"
    [] c = "V" -> "v"
    [] c = "W" -> "w"
    [] c = "X" -> "x"
    [] c = "Y" -> "y"
    [] c = "Z" -> "z"
    [] OTHER -> c

Upper(t) == [i \in 1..Len(t) |-> UpperChar(t[i])]
Lower(t) == [i \in 1..Len(t) |-> LowerChar(t[i])]

IsSpace(c) == c \in {" ", "\n", "\t"}

\* str.strip(): drop the whitespace at both ends
RECURSIVE LStrip(_)
LStrip(t) == IF Len(t) > 0 /\ IsSpace(t[1]) THEN LStrip(Tail(t)) ELSE t

RECURSIVE RStrip(_)
RStrip(t) ==
    IF Len(t) > 0 /\ IsSpace(t[Len(t)]) THEN RStrip(SubSeq(t, 1, Len(t) - 1)) ELSE t

Strip(t) == RStrip(LStrip(t))

\* str.startswith(prefix)
StartsWith(t, prefix) ==
    Len(t) >= Len(prefix) /\ SubSeq(t, 1, Len(prefix)) = prefix

\* `needle in t`
Contains(t, needle) ==
    \E k \in 0..(Len(t) - Len(needle)) : SubSeq(t, k + 1, k + Len(needle)) = needle

SELECT == <<"S", "E", "L", "E", "C", "T">>

\* the texts of the database's messages
MsgSyntax == <<"Y", "o", "u", " ", "h", "a", "v", "e", " ", "a", "n", " ", "e", "r", "r", "o", "r", " ", "i", "n", " ", "y", "o", "u", "r", " ", "S", "Q", "L", " ", "s", "y", "n", "t", "a", "x">>
MsgNoTable == <<"T", "a", "b", "l", "e", " ", "'", "d", "b", ".", "t", "'", " ", "d", "o", "e", "s", "n", "'", "t", " ", "e", "x", "i", "s", "t">>
MsgUnknownColumn == <<"U", "n", "k", "n", "o", "w", "n", " ", "c", "o", "l", "u", "m", "n", " ", "'", "x", "'", " ", "i", "n", " ", "'", "f", "i", "e", "l", "d", " ", "l", "i", "s", "t", "'">>
MsgAmbiguous == <<"C", "o", "l", "u", "m", "n", " ", "'", "i", "d", "'", " ", "i", "n", " ", "f", "i", "e", "l", "d", " ", "l", "i", "s", "t", " ", "i", "s", " ", "a", "m", "b", "i", "g", "u", "o", "u", "s">>
MsgDenied == <<"A", "c", "c", "e", "s", "s", " ", "d", "e", "n", "i", "e", "d", " ", "f", "o", "r", " ", "u", "s", "e", "r", " ", "'", "u", "'", "@", "'", "h", "'">>
MsgLost == <<"L", "o", "s", "t", " ", "c", "o", "n", "n", "e", "c", "t", "i", "o", "n", " ", "t", "o", " ", "M", "y", "S", "Q", "L", " ", "s", "e", "r", "v", "e", "r", " ", "d", "u", "r", "i", "n", "g", " ", "q", "u", "e", "r", "y">>
MsgCantConnect == <<"C", "a", "n", "'", "t", " ", "c", "o", "n", "n", "e", "c", "t", " ", "t", "o", " ", "M", "y", "S", "Q", "L", " ", "s", "e", "r", "v", "e", "r", " ", "o", "n", " ", "'", "h", "'">>
MsgCursorClosed == <<"C", "u", "r", "s", "o", "r", " ", "c", "l", "o", "s", "e", "d">>
MsgNoPublicKey == <<"C", "o", "u", "l", "d", "n", "'", "t", " ", "r", "e", "c", "e", "i", "v", "e", " ", "s", "e", "r", "v", "e", "r", "'", "s", " ", "p", "u", "b", "l", "i", "c", " ", "k", "e", "y">>
MsgNoCrypto == <<"'", "c", "r", "y", "p", "t", "o", "g", "r", "a", "p", "h", "y", "'", " ", "p", "a", "c", "k", "a", "g", "e", " ", "i", "s", " ", "r", "e", "q", "u", "i", "r", "e", "d">>
MsgNotSelect == <<"S", "E", "L", "E", "C", "T", " ", "o", "n", "l", "y">>

\* statements handed to validate: leading whitespace, a body, trailing whitespace
ValLeads == {<<>>, <<" ">>, <<"\n", "\t">>}
ValBodies ==
    { <<"S", "E", "L", "E", "C", "T", " ", "1">>,
      <<"s", "e", "l", "e", "c", "t", " ", "1">>,
      <<"S", "e", "L", "e", "C", "t", " ", "1">>,
      <<"U", "P", "D", "A", "T", "E", " ", "t">>,
      <<"(", "S", "E", "L", "E", "C", "T", " ", "1", ")">>,
      <<"S", "E", "L", "E", "C">>,
      <<>>,
      <<"S", "E", "L", "E", "C", "T", "x">>,
      <<"x", "S", "E", "L", "E", "C", "T", " ", "1">> }
ValTrails == {<<>>, <<" ">>}
ValSqls == {l \o b : l \in ValLeads, b \in ValBodies}
           \cup {b \o t : b \in ValBodies, t \in ValTrails}

-----------------------------------------------------------------------------
(* ParallelExecutor.execute_with_limit                                      *)

\* most calls of execute_with_limit in one run of the model
MaxLimitCalls == 2

Digit == <<"0", "1", "2", "3", "4", "5", "6", "7", "8", "9">>
IsDigit(c) == \E d \in 1..10 : Digit[d] = c

\* \w of the pattern language: letters, digits and the underscore
IsWordChar(c) == IsDigit(c) \/ c = "_" \/ UpperChar(c) # c \/ LowerChar(c) # c

\* \s of the pattern language
IsReSpace(c) == c \in {" ", "\t", "\n", "\r"}

LIMIT == <<"L", "I", "M", "I", "T">>

\* the end of the longest run of whitespace that starts at position k
RECURSIVE SkipSpaces(_, _)
SkipSpaces(t, k) ==
    IF k <= Len(t) /\ IsReSpace(t[k]) THEN SkipSpaces(t, k + 1) ELSE k

\* r"\bLIMIT\s+\d+" with re.IGNORECASE matches at position k
LimitClauseAt(t, k) ==
    /\ k + 4 <= Len(t)
    /\ Upper(SubSeq(t, k, k + 4)) = LIMIT
    /\ k = 1 \/ ~IsWordChar(t[k - 1])
    /\ LET j == SkipSpaces(t, k + 5)
       IN  j > k + 5 /\ j <= Len(t) /\ IsDigit(t[j])

\* re.search(r"\bLIMIT\s+\d+", sql, re.IGNORECASE)
HasLimitClause(t) == \E k \in 1..Len(t) : LimitClauseAt(t, k)

\* sql.rstrip(';')
RECURSIVE RStripSemicolons(_)
RStripSemicolons(t) ==
    IF Len(t) > 0 /\ t[Len(t)] = ";"
    THEN RStripSemicolons(SubSeq(t, 1, Len(t) - 1))
    ELSE t

\* str(limit) as the f-string formats an int
RECURSIVE DecimalOf(_)
DecimalOf(n) ==
    IF n < 10 THEN <<Digit[n + 1]>>
    ELSE DecimalOf(n \div 10) \o <<Digit[(n % 10) + 1]>>

Str(n) == IF n < 0 THEN <<"-">> \o DecimalOf(-n) ELSE DecimalOf(n)

\* f"{sql.rstrip(';')} LIMIT {limit}"
AppendLimit(sql, limit) ==
    RStripSemicolons(sql) \o <<" ">> \o LIMIT \o <<" ">> \o Str(limit)

\* variant: the clause is appended whether or not the statement has one
WithLimitAlwaysAppended(sql, limit) == AppendLimit(sql, limit)

\* the statement execute_with_limit hands to execute
WithLimit(sql, limit) ==
    IF ~HasLimitClause(sql) THEN AppendLimit(sql, limit) ELSE sql

\* the statements and the row caps the model passes in
LimitSqls ==
    { <<"S", "E", "L", "E", "C", "T", " ", "1">>,
      <<"S", "E", "L", "E", "C", "T", " ", "1", ";">>,
      <<"S", "E", "L", "E", "C", "T", " ", "1", ";", ";">>,
      <<"S", "E", "L", "E", "C", "T", " ", "1", ";", " ">>,
      <<"S", "E", "L", "E", "C", "T", " ", "1", " ", "L", "I", "M", "I", "T", " ", "5">>,
      <<"s", "e", "l", "e", "c", "t", " ", "1", " ", "l", "i", "m", "i", "t", " ", "5", ";">>,
      <<"S", "E", "L", "E", "C", "T", " ", "1", " ", "L", "I", "M", "I", "T", "\t", " ", "5">>,
      <<"S", "E", "L", "E", "C", "T", " ", "1", " ", "L", "I", "M", "I", "T", " ", "?">>,
      <<"S", "E", "L", "E", "C", "T", " ", "1", " ", "L", "I", "M", "I", "T">>,
      <<"S", "E", "L", "E", "C", "T", " ", "x", "L", "I", "M", "I", "T", " ", "5">>,
      <<"S", "E", "L", "E", "C", "T", " ", "1", " ", "L", "I", "M", "I", "T", "5">>,
      <<"S", "E", "L", "E", "C", "T", " ", "'", "L", "I", "M", "I", "T", " ", "5", "'", ";">>,
      <<";">> }
Limits == {0, 7, 1000, -1}

InitLimit == lcalls = <<>>

\* execute_with_limit(sql, limit): the rewrite, then execute(sql, parallel=False)
ExecuteWithLimit(sql, limit) ==
    /\ Len(lcalls) < MaxLimitCalls
    /\ lcalls' = Append(lcalls, [given |-> sql, limit |-> limit,
                                 sql |-> WithLimit(sql, limit),
                                 parallel |-> FALSE])
    /\ UNCHANGED <<pvars, evars, valvars, gvars, hvars>>

\* a caller passes a statement of its own, or one that an earlier call produced
NextLimit ==
    \/ \E sql \in LimitSqls, limit \in Limits : ExecuteWithLimit(sql, limit)
    \/ \E i \in 1..Len(lcalls), limit \in Limits :
           ExecuteWithLimit(lcalls[i].sql, limit)

-----------------------------------------------------------------------------
(* SQLValidator                                                             *)

\* most connections the validator creates in one run of the model
MaxValConns == 2

\* what pymysql raises: the exception class, e.args, and whether the
\* connection is lost with it (its socket is dropped, so conn.open is False)
Exc(cls, args, drops) == [ok |-> FALSE, cls |-> cls, args |-> args, drops |-> drops]
Fine == [ok |-> TRUE, cls |-> "", args |-> <<>>, drops |-> FALSE]

\* outcomes of pymysql.connect(**self.config)
ConnectOutcomes(up) ==
    IF up
    THEN { Fine,
           Exc("OperationalError", <<1045, MsgDenied>>, FALSE),
           Exc("OperationalError", <<MsgNoPublicKey>>, FALSE),
           Exc("RuntimeError", <<MsgNoCrypto>>, FALSE) }
    ELSE { Exc("OperationalError", <<2003, MsgCantConnect>>, FALSE) }

\* outcomes of cursor.execute("EXPLAIN " + sql) on the connection.  pymysql
\* picks the class from the server's error number: 1064 and 1146 are mapped
\* to ProgrammingError, an unmapped number such as 1054 or 1052 becomes
\* OperationalError (InternalError in older releases of the driver)
ExecuteOutcomes(up) ==
    IF up
    THEN { Fine,
           Exc("ProgrammingError", <<1064, MsgSyntax>>, FALSE),
           Exc("ProgrammingError", <<1146, MsgNoTable>>, FALSE),
           Exc("ProgrammingError", <<MsgCursorClosed>>, FALSE),
           Exc("OperationalError", <<1054, MsgUnknownColumn>>, FALSE),
           Exc("InternalError", <<1054, MsgUnknownColumn>>, FALSE),
           Exc("OperationalError", <<1052, MsgAmbiguous>>, FALSE),
           Exc("OperationalError", <<2013, MsgLost>>, TRUE),
           Exc("InterfaceError", <<0, <<>> >>, FALSE) }
    ELSE { Exc("OperationalError", <<2013, MsgLost>>, TRUE) }

\* SQLValidator._classify_error
ClassifyError(msg) ==
    LET msg_lower == Lower(msg) IN
    IF Contains(msg_lower, <<"u", "n", "k", "n", "o", "w", "n", " ", "c", "o", "l", "u", "m", "n">>) THEN "unknown_column"
    ELSE IF Contains(msg_lower, <<"t", "a", "b", "l", "e">>) /\ Contains(msg_lower, <<"d", "o", "e", "s", "n", "'", "t", " ", "e", "x", "i", "s", "t">>)
         THEN "unknown_table"
    ELSE IF Contains(msg_lower, <<"s", "y", "n", "t", "a", "x">>) THEN "syntax_error"
    ELSE IF Contains(msg_lower, <<"a", "m", "b", "i", "g", "u", "o", "u", "s">>) THEN "ambiguous_column"
    ELSE IF Contains(msg_lower, <<"a", "c", "c", "e", "s", "s", " ", "d", "e", "n", "i", "e", "d">>) THEN "access_denied"
    ELSE "other"

\* the record of one validate call: what came back (or was raised), how
\* often it called pymysql.connect and cursor.execute, which of the two
\* failed ("" when neither did) and what it raised
VResult(sql, is_valid, code, message, type, connects, dbcalls) ==
    [op |-> "validate", sql |-> sql, returned |-> TRUE, is_valid |-> is_valid,
     code |-> code, message |-> message, type |-> type, exc |-> "",
     connects |-> connects, dbcalls |-> dbcalls, failed |-> "", cause |-> Fine]

VRaised(sql, exc, connects, dbcalls) ==
    [op |-> "validate", sql |-> sql, returned |-> FALSE, is_valid |-> FALSE,
     code |-> 0, message |-> <<>>, type |-> "", exc |-> exc,
     connects |-> connects, dbcalls |-> dbcalls, failed |-> "", cause |-> Fine]

NoVCall ==
    [op |-> "none", sql |-> <<>>, returned |-> TRUE, is_valid |-> FALSE,
     code |-> 0, message |-> <<>>, type |-> "", exc |-> "",
     connects |-> 0, dbcalls |-> 0, failed |-> "", cause |-> Fine]

\* validate, lines 70-100: the three except clauses
HandleError(sql, e, connects, dbcalls) ==
    IF e.cls = "ProgrammingError"
    THEN IF Len(e.args) # 2 THEN VRaised(sql, "ValueError", connects, dbcalls)
         ELSE VResult(sql, FALSE, e.args[1], e.args[2], ClassifyError(e.args[2]),
                      connects, dbcalls)
    ELSE IF e.cls = "OperationalError"
    THEN IF Len(e.args) # 2 THEN VRaised(sql, "ValueError", connects, dbcalls)
         ELSE VResult(sql, FALSE, e.args[1], e.args[2], "operational",
                      connects, dbcalls)
    ELSE VResult(sql, FALSE, 0 - 1, e.args[Len(e.args)], "unknown", connects, dbcalls)

\* the gate written as a search for SELECT anywhere in the statement
GateRejectsUnlessMentioned(sql) == ~Contains(Upper(Strip(sql)), SELECT)

\* validate, lines 49-50: the statement is refused without a dry-run
GateRejects(sql) == ~StartsWith(Upper(Strip(sql)), SELECT)

\* _get_connection creating a connection only when it holds none at all
NeedsConnectionIfNone == vconn = 0

\* _get_connection, line 27
NeedsConnection == vconn = 0 \/ ~vconns[vconn].open

InitVal ==
    /\ vconn = 0
    /\ vconns = <<>>
    /\ vcall = NoVCall
    /\ vdb \in BOOLEAN

\* SQLValidator.validate: what the call does to the validator
ValidateCall(sql, co, eo) ==
    /\ IF GateRejects(sql)
       THEN /\ vcall' = VResult(sql, FALSE, 0 - 1, MsgNotSelect, "not_select", 0, 0)
            /\ UNCHANGED <<vconn, vconns>>
       ELSE IF NeedsConnection /\ ~co.ok
       THEN /\ vcall' = [HandleError(sql, co, 1, 0) EXCEPT !.failed = "connect", !.cause = co]
            /\ UNCHANGED <<vconn, vconns>>
       ELSE LET made == IF NeedsConnection THEN 1 ELSE 0
                cs == IF NeedsConnection THEN Append(vconns, [open |-> TRUE]) ELSE vconns
                c == IF NeedsConnection THEN Len(vconns) + 1 ELSE vconn
            IN /\ NeedsConnection => Len(vconns) < MaxValConns
               /\ vconn' = c
               /\ vconns' = IF eo.drops THEN [cs EXCEPT ![c].open = FALSE] ELSE cs
               /\ vcall' = IF eo.ok THEN VResult(sql, TRUE, 0, <<>>, "", made, 1)
                           ELSE [HandleError(sql, eo, made, 1) EXCEPT !.failed = "execute",
                                                                   !.cause = eo]

\* SQLValidator.validate
Validate(sql, co, eo) ==
    /\ ValidateCall(sql, co, eo)
    /\ UNCHANGED vdb
    /\ UNCHANGED <<pvars, evars, gvars, lvars, hvars>>

\* SQLValidator.close: what the call does to the validator
CloseCall ==
    /\ IF vconn # 0 /\ vconns[vconn].open
       THEN /\ vconns' = [vconns EXCEPT ![vconn].open = FALSE]
            /\ vconn' = 0
       ELSE UNCHANGED <<vconn, vconns>>
    /\ vcall' = [NoVCall EXCEPT !.op = "close"]

\* SQLValidator.close
Close ==
    /\ CloseCall
    /\ UNCHANGED vdb
    /\ UNCHANGED <<pvars, evars, gvars, lvars, hvars>>

\* the database becomes unreachable, or reachable again
DbToggle ==
    /\ vdb' = ~vdb
    /\ UNCHANGED <<vconn, vconns, vcall>>
    /\ UNCHANGED <<pvars, evars, gvars, lvars, hvars>>

NextVal ==
    \/ \E sql \in ValSqls, co \in ConnectOutcomes(vdb), eo \in ExecuteOutcomes(vdb) :
          Validate(sql, co, eo)
    \/ Close
    \/ DbToggle

\* the statements validated next to the lookups: one the gate accepts and
\* one it refuses
LookupSqls ==
    { <<"S", "E", "L", "E", "C", "T", " ", "1">>,
      <<"U", "P", "D", "A", "T", "E", " ", "t">> }

-----------------------------------------------------------------------------
(* The global ToolHandler: init_handler, validate_sql, close_handler.  The  *)
(* validator variables are those of the installed handler's SQLValidator;   *)
(* vconns keeps every connection any handler's validator has opened.        *)

\* most handlers init_handler creates in one run of the model
MaxHandlers == 2

\* _handler and the call that returned last: installed tells whether
\* _handler is set, made counts the handlers created, replaced tells whether
\* init_handler ever overwrote a handler that was installed
Handler(installed, made, replaced, last, raised) ==
    [installed |-> installed, made |-> made, replaced |-> replaced,
     last |-> last, raised |-> raised]

NoHandler == Handler(FALSE, 0, FALSE, "none", FALSE)

InitHandlers == handler = NoHandler

\* init_handler: ToolHandler(...) builds a new SQLValidator with no
\* connection and _handler is bound to the new handler; the handler bound
\* before, if any, is let go as it is.  When ToolHandler(...) raises
\* (unknown context_method, metadata file missing) _handler stays
InitHandler(constructed) ==
    /\ handler.made < MaxHandlers
    /\ IF constructed
       THEN /\ handler' = Handler(TRUE, handler.made + 1,
                                  handler.replaced \/ handler.installed,
                                  "init_handler", FALSE)
            /\ vconn' = 0
            /\ vcall' = NoVCall
       ELSE /\ handler' = [handler EXCEPT !.last = "init_handler", !.raised = TRUE]
            /\ UNCHANGED <<vconn, vcall>>
    /\ UNCHANGED <<vconns, vdb>>
    /\ UNCHANGED <<pvars, evars, gvars, lvars>>

\* the validate_sql tool: get_handler() raises without a handler, an empty
\* sql is answered without the validator, else handler.validator.validate
ValidateSql(sql, co, eo) ==
    /\ IF ~handler.installed
       THEN /\ handler' = [handler EXCEPT !.last = "validate_sql", !.raised = TRUE]
            /\ UNCHANGED <<vconn, vconns, vcall>>
       ELSE IF sql = <<>>
       THEN /\ handler' = [handler EXCEPT !.last = "validate_sql", !.raised = FALSE]
            /\ UNCHANGED <<vconn, vconns, vcall>>
       ELSE /\ ValidateCall(sql, co, eo)
            /\ handler' = [handler EXCEPT !.last = "validate_sql",
                                          !.raised = ~vcall'.returned]
    /\ UNCHANGED vdb
    /\ UNCHANGED <<pvars, evars, gvars, lvars>>

\* close_handler: the installed handler's validator is closed and _handler
\* is set to None; nothing happens when no handler is installed
CloseHandler ==
    /\ IF handler.installed
       THEN /\ CloseCall
            /\ handler' = [handler EXCEPT !.installed = FALSE,
                                          !.last = "close_handler", !.raised = FALSE]
       ELSE /\ handler' = [handler EXCEPT !.last = "close_handler", !.raised = FALSE]
            /\ UNCHANGED <<vconn, vconns, vcall>>
    /\ UNCHANGED vdb
    /\ UNCHANGED <<pvars, evars, gvars, lvars>>

\* a connection no validator of an installed handler refers to any more
Unreferenced(c) == c \in 1..Len(vconns) /\ c # vconn

\* the interpreter may destroy an unreferenced Connection at any time, or
\* never; pymysql closes the socket when it does
Finalize(c) ==
    /\ Unreferenced(c) /\ vconns[c].open
    /\ vconns' = [vconns EXCEPT ![c].open = FALSE]
    /\ UNCHANGED <<vconn, vcall, vdb>>
    /\ UNCHANGED hvars
    /\ UNCHANGED <<pvars, evars, gvars, lvars>>

\* the statements handed to validate_sql
HandlerSqls == LookupSqls \cup {<<>>}

NextHandlers ==
    \/ \E constructed \in BOOLEAN : InitHandler(constructed)
    \/ \E sql \in HandlerSqls, co \in ConnectOutcomes(vdb), eo \in ExecuteOutcomes(vdb) :
          ValidateSql(sql, co, eo)
    \/ CloseHandler
    \/ \E c \in 1..Len(vconns) : Finalize(c)
    \/ DbToggle

-----------------------------------------------------------------------------
(* SchemaGraph                                                              *)

\* most tables in one get_multi_hop_path request
MaxTables == 3

TableNames == {"A", "B", "C", "D"}
\* names lookups are made with; "Z" is a table of no metadata
LookupNames == TableNames \cup {"Z"}

\* a table name as text: the names of the model are one letter long
NameText(n) == <<n>>

TableInfo(n) ==
    [description |-> <<"T", "a", "b", "l", "e", " ", n>>,
     source |-> "db",
     columns |-> <<[name |-> <<LowerChar(n), "_", "i", "d">>,
                    description |-> <<"K", "e", "y">>]>>]
\* the attributes networkx keeps for a node that only an edge mentioned
NoAttrs == [description |-> <<>>, source |-> "", columns |-> <<>>]

Rel(ft, fc, tt, tc, type) ==
    [from |-> <<ft, fc>>, to |-> <<tt, tc>>, type |-> type]

\* the business_glossary of the metadata, in the order of the file
Glossary ==
    << [term |-> <<"B", "a", "s", "k", "e", "t">>, mapping |-> "A.total"],
       [term |-> <<"K", "e", "y", "s">>, mapping |-> "B.b_id"] >>

Meta(names, rels) ==
    [tables |-> [n \in names |-> TableInfo(n)], relationships |-> rels,
     business_glossary |-> IF names = {} THEN <<>> ELSE Glossary]

Metadatas ==
    { Meta({"A", "B", "C"}, <<Rel("A", "x", "B", "y", "fk"), Rel("B", "y", "C", "z", "fk")>>),
      Meta({"A", "B", "C", "D"}, <<Rel("A", "x", "B", "y", "fk"), Rel("C", "z", "D", "w", "fk")>>),
      Meta({"A", "B", "C", "D"}, <<Rel("A", "x", "B", "y", "fk"), Rel("B", "y", "C", "z", "fk"),
                                   Rel("A", "x", "D", "w", "fk"), Rel("D", "w", "C", "z", "ref")>>),
      Meta({"A", "B", "C", "D"}, <<Rel("B", "y", "A", "x", "fk"), Rel("B", "y", "C", "z", "fk"),
                                   Rel("B", "y", "D", "w", "fk")>>),
      Meta({"A", "B"}, <<Rel("A", "x", "B", "y", "fk"), Rel("A", "x2", "B", "y2", "ref")>>),
      Meta({"A", "B"}, <<Rel("A", "x", "C", "z", "fk")>>),
      Meta({}, <<>>) }

\* DiGraph.add_edge(u, v, **attrs): missing end points become nodes, and an
\* edge that exists has its attributes overwritten
AddEdge(g, u, v, attrs) ==
    [nodes |-> g.nodes \cup {u, v},
     nattr |-> [n \in g.nodes \cup {u, v} |-> IF n \in g.nodes THEN g.nattr[n] ELSE NoAttrs],
     edges |-> g.edges \cup {<<u, v>>},
     eattr |-> [e \in g.edges \cup {<<u, v>>} |-> IF e = <<u, v>> THEN attrs ELSE g.eattr[e]]]

\* one relationship entered as its forward edge only
AddRelationshipOneWay(g, rel) ==
    AddEdge(g, rel.from[1], rel.to[1],
            [from_col |-> rel.from[2], to_col |-> rel.to[2], type |-> rel.type,
             join_condition |-> <<rel.from, "=", rel.to>>])

\* _build_graph, lines 64-92: the two edges of one relationship
AddRelationship(g, rel) ==
    LET forward == [from_col |-> rel.from[2], to_col |-> rel.to[2], type |-> rel.type,
                    join_condition |-> <<rel.from, "=", rel.to>>]
        backward == [from_col |-> rel.to[2], to_col |-> rel.from[2], type |-> rel.type,
                     join_condition |-> <<rel.to, "=", rel.from>>]
    IN AddEdge(AddEdge(g, rel.from[1], rel.to[1], forward), rel.to[1], rel.from[1], backward)

RECURSIVE AddRelationships(_, _)
AddRelationships(g, rels) ==
    IF Len(rels) = 0 THEN g
    ELSE AddRelationships(AddRelationship(g, Head(rels)), Tail(rels))

\* SchemaGraph._build_graph
BuildGraph(m) ==
    AddRelationships([nodes |-> DOMAIN m.tables,
                      nattr |-> [n \in DOMAIN m.tables |->
                                    [description |-> m.tables[n].description,
                                     source |-> m.tables[n].source,
                                     columns |-> m.tables[n].columns]],
                      edges |-> {},
                      eattr |-> [e \in {} |-> NoAttrs]],
                     m.relationships)

Neighbors(g, n) == {v \in g.nodes : <<n, v>> \in g.edges}

\* nodes at distance at most k from a, following the edges' direction
RECURSIVE Within(_, _, _)
Within(g, a, k) ==
    IF k = 0 THEN {a}
    ELSE LET prev == Within(g, a, k - 1) IN
         prev \cup UNION {Neighbors(g, n) : n \in prev}

Reachable(g, a, b) == b \in Within(g, a, Cardinality(g.nodes))

Distance(g, a, b) ==
    CHOOSE k \in 0..Cardinality(g.nodes) :
        /\ b \in Within(g, a, k)
        /\ \A j \in 0..(k - 1) : b \notin Within(g, a, j)

IsPath(g, p) == \A i \in 1..(Len(p) - 1) : <<p[i], p[i + 1]>> \in g.edges

\* a path search that answers with any path that repeats no node
AnySimplePaths(g, a, b) ==
    IF a \notin g.nodes \/ b \notin g.nodes THEN [status |-> "NodeNotFound", paths |-> {}]
    ELSE IF ~Reachable(g, a, b) THEN [status |-> "NetworkXNoPath", paths |-> {}]
    ELSE [status |-> "ok",
          paths |-> UNION {{p \in [1..(d + 1) -> g.nodes] :
                              /\ p[1] = a /\ p[d + 1] = b /\ IsPath(g, p)
                              /\ \A i, j \in 1..(d + 1) : p[i] = p[j] => i = j} :
                           d \in 0..(Cardinality(g.nodes) - 1)}]

\* nx.shortest_path(G, a, b): NodeNotFound, NetworkXNoPath, or one of the
\* paths with the fewest edges (which one is up to networkx)
ShortestPaths(g, a, b) ==
    IF a \notin g.nodes \/ b \notin g.nodes THEN [status |-> "NodeNotFound", paths |-> {}]
    ELSE IF ~Reachable(g, a, b) THEN [status |-> "NetworkXNoPath", paths |-> {}]
    ELSE LET d == Distance(g, a, b) IN
         [status |-> "ok",
          paths |-> {p \in [1..(d + 1) -> g.nodes] :
                        p[1] = a /\ p[d + 1] = b /\ IsPath(g, p)}]

JoinOf(g, u, v) ==
    [from |-> u, to |-> v,
     condition |-> g.eattr[<<u, v>>].join_condition,
     type |-> g.eattr[<<u, v>>].type]

\* the joins along a path, lines 150-158
JoinsAlong(g, p) == [i \in 1..(Len(p) - 1) |-> JoinOf(g, p[i], p[i + 1])]

\* what a lookup gave: None, a value, or an exception
Lookup(op, args, status, value) ==
    [op |-> op, args |-> args, status |-> status, value |-> value]

NoLookup == Lookup("none", <<>>, "None", <<>>)
NoMultiHop == [active |-> FALSE, tables |-> <<>>, all_joins |-> <<>>,
               visited_tables |-> {}, ordered_path |-> <<>>, remaining |-> {},
               iterations |-> 0]

InitGraph ==
    /\ meta \in Metadatas
    /\ graph = BuildGraph(meta)
    /\ glookup = NoLookup
    /\ mh = NoMultiHop

\* the dict get_table_info returns for a node, lines 111-127
TableInfoValue(g, name) ==
    [table |-> name,
     description |-> g.nattr[name].description,
     source |-> g.nattr[name].source,
     columns |-> g.nattr[name].columns,
     connected_tables |->
         {[table |-> v,
           join_condition |-> g.eattr[<<name, v>>].join_condition,
           relationship |-> g.eattr[<<name, v>>].type] : v \in Neighbors(g, name)}]

\* SchemaGraph.get_table_info
GetTableInfo(name) ==
    /\ glookup' =
         IF name \notin graph.nodes THEN Lookup("get_table_info", <<name>>, "None", <<>>)
         ELSE Lookup("get_table_info", <<name>>, "found", TableInfoValue(graph, name))
    /\ UNCHANGED <<meta, graph, mh>>
    /\ UNCHANGED <<pvars, evars, valvars, lvars, hvars>>

\* SchemaGraph.list_tables
ListTables ==
    /\ glookup' = Lookup("list_tables", <<>>, "found",
                         {[name |-> n, description |-> graph.nattr[n].description] :
                             n \in graph.nodes})
    /\ UNCHANGED <<meta, graph, mh>>
    /\ UNCHANGED <<pvars, evars, valvars, lvars, hvars>>

\* find_join_path once nx.shortest_path has answered
JoinPathResult(g, a, b, sp, p) ==
    IF sp.status = "NetworkXNoPath" THEN Lookup("find_join_path", <<a, b>>, "None", <<>>)
    ELSE IF sp.status = "NodeNotFound"
         THEN Lookup("find_join_path", <<a, b>>, "raised", <<>>)
    ELSE Lookup("find_join_path", <<a, b>>, "found",
                [path |-> p, joins |-> JoinsAlong(g, p), hop_count |-> Len(p) - 1])

\* the guard of find_join_path, line 139
BothInGraph(g, a, b) == a \in g.nodes /\ b \in g.nodes

\* SchemaGraph.find_join_path
FindJoinPath(a, b) ==
    /\ IF ~BothInGraph(graph, a, b)
       THEN glookup' = Lookup("find_join_path", <<a, b>>, "None", <<>>)
       ELSE LET sp == ShortestPaths(graph, a, b) IN
            IF sp.status = "ok"
            THEN \E p \in sp.paths : glookup' = JoinPathResult(graph, a, b, sp, p)
            ELSE glookup' = JoinPathResult(graph, a, b, sp, <<>>)
    /\ UNCHANGED <<meta, graph, mh>>
    /\ UNCHANGED <<pvars, evars, valvars, lvars, hvars>>

\* a check that looks at the first table only
FirstInGraph(g, tables) == Len(tables) > 0 => tables[1] \in g.nodes

\* the check of get_multi_hop_path, lines 288-290
AllInGraph(g, tables) == \A k \in 1..Len(tables) : tables[k] \in g.nodes

\* get_multi_hop_path up to its loop, lines 284-299
MultiHopStart(tables) ==
    /\ ~mh.active
    /\ IF Len(tables) < 2 \/ ~AllInGraph(graph, tables)
       THEN /\ glookup' = Lookup("get_multi_hop_path", tables, "None", <<>>)
            /\ UNCHANGED mh
       ELSE /\ glookup' = Lookup("get_multi_hop_path", tables, "running", <<>>)
            /\ mh' = [active |-> TRUE, tables |-> tables, all_joins |-> <<>>,
                      visited_tables |-> {tables[1]}, ordered_path |-> <<tables[1]>>,
                      remaining |-> {tables[k] : k \in 2..Len(tables)},
                      iterations |-> 0]
    /\ UNCHANGED <<meta, graph>>
    /\ UNCHANGED <<pvars, evars, valvars, lvars, hvars>>

\* the joins of best_path recorded from the far table back to the near one
RECURSIVE ExtendJoinsBackwards(_, _, _, _)
ExtendJoinsBackwards(g, joins, p, i) ==
    IF i > Len(p) - 1 THEN joins
    ELSE ExtendJoinsBackwards(g, Append(joins, JoinOf(g, p[i + 1], p[i])), p, i + 1)

\* lines 323-332: the joins of best_path not yet in all_joins are appended
RECURSIVE ExtendJoins(_, _, _, _)
ExtendJoins(g, joins, p, i) ==
    IF i > Len(p) - 1 THEN joins
    ELSE IF \E k \in 1..Len(joins) : joins[k].from = p[i] /\ joins[k].to = p[i + 1]
         THEN ExtendJoins(g, joins, p, i + 1)
         ELSE ExtendJoins(g, Append(joins, JoinOf(g, p[i], p[i + 1])), p, i + 1)

\* every table of best_path is appended, listed or not
RECURSIVE ExtendPathWithAll(_, _, _)
ExtendPathWithAll(ordered, p, i) ==
    IF i > Len(p) THEN ordered
    ELSE ExtendPathWithAll(Append(ordered, p[i]), p, i + 1)

\* lines 335-338: the tables of best_path not yet listed are appended
RECURSIVE ExtendPath(_, _, _)
ExtendPath(ordered, p, i) ==
    IF i > Len(p) THEN ordered
    ELSE IF \E k \in 1..Len(ordered) : ordered[k] = p[i]
         THEN ExtendPath(ordered, p, i + 1)
         ELSE ExtendPath(Append(ordered, p[i]), p, i + 1)

\* the (visited, target) pairs the two for loops try
Pairs == mh.visited_tables \X mh.remaining

\* the pairs with any path between them
JoinedPairs == {pr \in Pairs : ShortestPaths(graph, pr[1], pr[2]).status = "ok"}

\* the pairs that can end up as best: no pair has a shorter shortest path
\* (which of them is met first depends on the iteration order of the sets)
BestPairs ==
    {pr \in Pairs :
        /\ ShortestPaths(graph, pr[1], pr[2]).status = "ok"
        /\ \A other \in Pairs :
              ShortestPaths(graph, other[1], other[2]).status = "ok" =>
                  Distance(graph, pr[1], pr[2]) <= Distance(graph, other[1], other[2])}

\* one iteration of the while loop, lines 301-340, and the return after the
\* last one, lines 342-347
MultiHopStep ==
    /\ mh.active
    /\ IF \E pr \in Pairs : ShortestPaths(graph, pr[1], pr[2]).status = "NodeNotFound"
       THEN /\ glookup' = Lookup("get_multi_hop_path", mh.tables, "raised", <<>>)
            /\ mh' = NoMultiHop
       ELSE IF BestPairs = {}
       THEN /\ glookup' = Lookup("get_multi_hop_path", mh.tables, "None", <<>>)
            /\ mh' = NoMultiHop
       ELSE \E pr \in BestPairs : \E best_path \in ShortestPaths(graph, pr[1], pr[2]).paths :
              LET joins == ExtendJoins(graph, mh.all_joins, best_path, 1)
                  ordered == ExtendPath(mh.ordered_path, best_path, 1)
                  visited == mh.visited_tables \cup {best_path[k] : k \in 1..Len(best_path)}
                  rest == mh.remaining \ {pr[2]}
              IN IF rest = {}
                 THEN /\ glookup' = Lookup("get_multi_hop_path", mh.tables, "found",
                                           [tables |-> mh.tables, path |-> ordered,
                                            joins |-> joins, total_hops |-> Len(joins)])
                      /\ mh' = NoMultiHop
                 ELSE /\ mh' = [mh EXCEPT !.all_joins = joins, !.ordered_path = ordered,
                                          !.visited_tables = visited, !.remaining = rest,
                                          !.iterations = @ + 1]
                      /\ UNCHANGED glookup
    /\ UNCHANGED <<meta, graph>>
    /\ UNCHANGED <<pvars, evars, valvars, lvars, hvars>>

\* the tests of search_tables_by_keyword on one node, lines 238-253
NodeMatches(g, n, keyword_lower) ==
    \/ Contains(Lower(NameText(n)), keyword_lower)
    \/ Contains(Lower(g.nattr[n].description), keyword_lower)
    \/ \E i \in 1..Len(g.nattr[n].columns) :
          \/ Contains(Lower(g.nattr[n].columns[i].name), keyword_lower)
          \/ Contains(Lower(g.nattr[n].columns[i].description), keyword_lower)

\* the glossary entries search_tables_by_keyword adds, lines 259-267
GlossaryHits(m, keyword_lower) ==
    LET Hit(e) == Contains(Lower(e.term), keyword_lower)
    IN  SelectSeq(m.business_glossary, Hit)

\* a search that lower-cases the descriptions where they are kept
SearchTablesLoweringInPlace(keyword) ==
    /\ glookup' = Lookup("search_tables_by_keyword", <<keyword>>, "found",
                         [tables |-> {TableInfoValue(graph, n) :
                                         n \in {v \in graph.nodes :
                                                   NodeMatches(graph, v, Lower(keyword))}},
                          glossary |-> GlossaryHits(meta, Lower(keyword))])
    /\ graph' = [graph EXCEPT !.nattr =
                    [n \in graph.nodes |->
                        [graph.nattr[n] EXCEPT !.description = Lower(@)]]]
    /\ UNCHANGED <<meta, mh>>
    /\ UNCHANGED <<pvars, evars, valvars, lvars, hvars>>

\* SchemaGraph.search_tables_by_keyword: the table entries (in node order,
\* kept as a set here) and after them the glossary entries
SearchTablesByKeyword(keyword) ==
    /\ glookup' = Lookup("search_tables_by_keyword", <<keyword>>, "found",
                         [tables |-> {TableInfoValue(graph, n) :
                                         n \in {v \in graph.nodes :
                                                   NodeMatches(graph, v, Lower(keyword))}},
                          glossary |-> GlossaryHits(meta, Lower(keyword))])
    /\ UNCHANGED <<meta, graph, mh>>
    /\ UNCHANGED <<pvars, evars, valvars, lvars, hvars>>

\* " AND ".join(conditions)
RECURSIVE JoinAnd(_)
JoinAnd(conditions) ==
    IF Len(conditions) = 0 THEN <<>>
    ELSE IF Len(conditions) = 1 THEN conditions[1]
    ELSE conditions[1] \o <<" AND ">> \o JoinAnd(Tail(conditions))

\* the dict get_join_hint makes of a found path, lines 363-381
JoinHintValue(a, b, info) ==
    IF info.hop_count = 1
    THEN [join_condition |-> info.joins[1].condition,
          type |-> info.joins[1].type,
          description |-> <<"direct", a, b>>,
          path |-> <<>>, joins |-> <<>>,
          keys |-> {"join_condition", "type", "description"}]
    ELSE [join_condition |-> JoinAnd([i \in 1..Len(info.joins) |-> info.joins[i].condition]),
          type |-> "multi-hop",
          description |-> <<"path">> \o info.path,
          path |-> info.path, joins |-> info.joins,
          keys |-> {"join_condition", "type", "description", "path", "joins"}]

\* get_join_hint once find_join_path has answered
JoinHintResult(a, b, found) ==
    IF found.status = "found"
    THEN Lookup("get_join_hint", <<a, b>>, "found", JoinHintValue(a, b, found.value))
    ELSE Lookup("get_join_hint", <<a, b>>, found.status, <<>>)

\* SchemaGraph.get_join_hint
GetJoinHint(a, b) ==
    /\ IF ~BothInGraph(graph, a, b)
       THEN glookup' = Lookup("get_join_hint", <<a, b>>, "None", <<>>)
       ELSE LET sp == ShortestPaths(graph, a, b) IN
            IF sp.status = "ok"
            THEN \E p \in sp.paths :
                    glookup' = JoinHintResult(a, b, JoinPathResult(graph, a, b, sp, p))
            ELSE glookup' = JoinHintResult(a, b, JoinPathResult(graph, a, b, sp, <<>>))
    /\ UNCHANGED <<meta, graph, mh>>
    /\ UNCHANGED <<pvars, evars, valvars, lvars, hvars>>

TableLists == UNION {[1..n -> LookupNames] : n \in 0..MaxTables}

\* the keywords searched for
Keywords ==
    { <<"a">>, <<"B">>, <<"b", "_">>, <<"K", "E", "Y">>, <<"k", "e", "y", "s">>,
      <<"t", "a", "b", "l", "e", " ", "c">>, <<"z">>, <<>> }

\* one caller: a lookup starts when the one before it has returned
NextGraph ==
    \/ \E name \in LookupNames : ~mh.active /\ GetTableInfo(name)
    \/ \E a \in LookupNames, b \in LookupNames : ~mh.active /\ FindJoinPath(a, b)
    \/ \E tables \in TableLists : MultiHopStart(tables)
    \/ MultiHopStep
    \/ ~mh.active /\ ListTables
    \/ \E keyword \in Keywords : ~mh.active /\ SearchTablesByKeyword(keyword)
    \/ \E a \in LookupNames, b \in LookupNames : ~mh.active /\ GetJoinHint(a, b)

\* the tables asked of get_multi_hop_path while others look up
ReaderLists ==
    [1..2 -> TableNames] \cup {<<"A", "C", "D">>, <<"B", "D", "A">>, <<"C", "A", "Z">>}

\* several callers: while one runs the loop of get_multi_hop_path the others
\* make their lookups
NextReaders ==
    \/ \E name \in LookupNames : GetTableInfo(name)
    \/ \E a \in LookupNames, b \in LookupNames : FindJoinPath(a, b)
    \/ \E tables \in ReaderLists : MultiHopStart(tables)
    \/ MultiHopStep
    \/ ListTables
    \/ \E keyword \in Keywords : SearchTablesByKeyword(keyword)
    \/ \E a \in LookupNames, b \in LookupNames : GetJoinHint(a, b)

-----------------------------------------------------------------------------
(* Properties of SQLValidator and of the lookups                            *)

\* the statement, whitespace-trimmed and read case-insensitively, begins
\* with SELECT: after k leading whitespace characters come the six letters
BeginsWithSelect(sql) ==
    \E k \in 0..Len(sql) :
        /\ \A j \in 1..k : IsSpace(sql[j])
        /\ Len(sql) >= k + Len(SELECT)
        /\ \A j \in 1..Len(SELECT) :
              sql[k + j] = SELECT[j] \/ sql[k + j] = LowerChar(SELECT[j])

\* C8: a statement that does not begin with SELECT is refused with type
\* not_select, and the refusal calls neither pymysql.connect nor
\* cursor.execute, whatever the database and connection state.
C8_NotSelectRefusedWithoutDb ==
    (vcall.op = "validate" /\ ~BeginsWithSelect(vcall.sql)) =>
        /\ vcall.returned
        /\ ~vcall.is_valid
        /\ vcall.type = "not_select"
        /\ vcall.connects = 0
        /\ vcall.dbcalls = 0

C8_Witness ==
    /\ vcall.op = "validate" /\ vcall.type = "not_select"
    /\ Contains(Upper(vcall.sql), SELECT)
    /\ ~vdb
    /\ vconn # 0 /\ vconns[vconn].open

\* server error numbers that report a fault of the statement itself:
\* syntax error, no such table, unknown column, ambiguous column
StatementErrnos == {1064, 1146, 1054, 1052}

\* what was raised reports a fault of the statement
IsStatementError(e) ==
    \/ e.cls = "ProgrammingError"
    \/ Len(e.args) = 2 /\ e.args[1] \in StatementErrnos

\* C11: when the dry-run fails, the error type is the first matching message
\* rule (unknown_column, unknown_table, syntax_error, ambiguous_column,
\* access_denied, other) for a statement error, operational for a
\* connection or operational error and unknown for any other exception; and
\* for statement and operational errors the database's code and message come
\* back unchanged.
C11_ErrorTypeByKind ==
    (vcall.op = "validate" /\ vcall.failed # "") =>
        LET e == vcall.cause IN
        /\ vcall.returned
        /\ vcall.type = IF IsStatementError(e) THEN ClassifyError(e.args[Len(e.args)])
                        ELSE IF e.cls = "OperationalError" THEN "operational"
                        ELSE "unknown"
        /\ (IsStatementError(e) \/ e.cls = "OperationalError") =>
              /\ Len(e.args) = 2
              /\ vcall.code = e.args[1]
              /\ vcall.message = e.args[2]

\* the type follows the class of the exception whenever the exception
\* carries (code, message)
TypeFollowsExceptionClass ==
    (vcall.op = "validate" /\ vcall.failed # "" /\ Len(vcall.cause.args) = 2) =>
        LET e == vcall.cause IN
        /\ vcall.returned
        /\ vcall.type = IF e.cls = "ProgrammingError" THEN ClassifyError(e.args[2])
                        ELSE IF e.cls = "OperationalError" THEN "operational"
                        ELSE "unknown"
        /\ e.cls \in {"ProgrammingError", "OperationalError"} =>
              vcall.code = e.args[1] /\ vcall.message = e.args[2]

\* an unknown-column error of the statement comes back as something else
UnknownColumnMisfiled ==
    /\ vcall.op = "validate" /\ vcall.returned
    /\ vcall.code = 1054
    /\ ClassifyError(vcall.message) = "unknown_column"
    /\ vcall.type # "unknown_column"

\* the validator holds a connection and it is open
HoldsOpen == vconn # 0 /\ vconns[vconn].open

\* a validate call has just run (a call that changed nothing is a stutter)
ValidateStep ==
    /\ vcall'.op = "validate"
    /\ <<vcall, vconn, vconns>>' # <<vcall, vconn, vconns>>

\* C12: over validate calls, close calls and connection drops in any order,
\* pymysql.connect is called, and on success a connection is created,
\* exactly when an accepted (SELECT) validate holds no connection or one
\* that is not open; otherwise the held connection is reused.  So the
\* dry-run is issued on an open connection, an open connection is never
\* replaced, only the held connection can be open, and after close() no
\* connection is open.
C12_LazyConnection ==
    [][ /\ ValidateStep =>
            /\ vcall'.connects =
                  IF BeginsWithSelect(vcall'.sql) /\ ~HoldsOpen THEN 1 ELSE 0
            /\ Len(vconns') > Len(vconns) =>
                  /\ vcall'.connects = 1
                  /\ Len(vconns') = Len(vconns) + 1
                  /\ vconn' = Len(vconns')
            /\ (vcall'.connects = 1 /\ vcall'.failed # "connect") =>
                  Len(vconns') = Len(vconns) + 1
            /\ vcall'.connects = 0 =>
                  vconn' = vconn /\ Len(vconns') = Len(vconns)
            /\ vcall'.dbcalls = 1 =>
                  IF vcall'.connects = 1 THEN vconn' = Len(vconns) + 1
                  ELSE HoldsOpen /\ vconn' = vconn
            /\ HoldsOpen => vconn' = vconn
        /\ vcall'.op = "close" => \A c \in 1..Len(vconns') : ~vconns'[c].open
        /\ \A c \in 1..Len(vconns') : vconns'[c].open => c = vconn'
      ]_vars

\* a validate has replaced a lost connection by a new one and used it
C12_Witness ==
    /\ vcall.op = "validate" /\ vcall.is_valid
    /\ vcall.connects = 1 /\ vcall.dbcalls = 1
    /\ Len(vconns) = 2 /\ vconn = 2
    /\ ~vconns[1].open /\ vconns[2].open

Connected(g, tables) ==
    \A k \in 1..Len(tables) : Reachable(g, tables[1], tables[k])

\* the lookup asked for a table the graph lacks or a path that is not there
LookupMisses ==
    \/ /\ glookup.op = "get_table_info"
       /\ glookup.args[1] \notin graph.nodes
    \/ /\ glookup.op = "find_join_path"
       /\ \/ glookup.args[1] \notin graph.nodes
          \/ glookup.args[2] \notin graph.nodes
          \/ ~Reachable(graph, glookup.args[1], glookup.args[2])
    \/ /\ glookup.op = "get_multi_hop_path" /\ glookup.status # "running"
       /\ \/ ~AllInGraph(graph, glookup.args)
          \/ Len(glookup.args) >= 2 /\ ~Connected(graph, glookup.args)

\* the lookups never raise and answer None for a missing table or path
LookupsReturnNone ==
    /\ glookup.status # "raised"
    /\ LookupMisses => glookup.status = "None"

\* C9: validate never raises, whatever the database raised and whatever
\* arguments the exception carries: a failed dry-run or connect gives
\* is_valid=false with an errors record; and get_table_info, find_join_path
\* and get_multi_hop_path answer None for an absent table or a missing path.
C9_FailuresNeverRaised ==
    /\ vcall.op = "validate" =>
          /\ vcall.returned
          /\ vcall.failed # "" => (~vcall.is_valid /\ vcall.type # "")
    /\ LookupsReturnNone

\* C10 as stated: a failure to establish a connection leaves execute and
\* validate as a raised error, not as a returned result.
C10_ConnectFailureRaised ==
    /\ (Returned /\ single.outcome = "connect_error") => ret.raised
    /\ (vcall.op = "validate" /\ vcall.failed = "connect") => ~vcall.returned

\* C10 amended: a failure to establish a connection is converted into a
\* returned result.  The unpartitioned execute returns success=False with
\* the error text and partitions=0; a partitioned execute drops the
\* partition whose connect failed and returns success=True; validate
\* returns is_valid=False, with type operational and the driver's code and
\* message for an OperationalError(code, message) and type unknown for an
\* exception of another class.  Only an OperationalError that does not
\* carry exactly two arguments leaves validate, as the ValueError of the
\* unpacking in the except clause.
C10_ConnectFailureReturned ==
    /\ (Returned /\ single.outcome = "connect_error") =>
          /\ ~ret.raised /\ ~ret.success
          /\ ret.error = "connect_error"
          /\ ret.data = <<>> /\ ret.partitions = 0
          /\ conns = <<>>
    /\ (Returned /\ \E i \in TaskIds : tasks[i].outcome = "connect_error") =>
          /\ ~ret.raised /\ ret.success /\ ret.error = None
          /\ \E order \in Orders(OkTasks) : ret.data = RowsInOrder(order)
          /\ \A i \in TaskIds : tasks[i].outcome = "connect_error" => tasks[i].conn = 0
    /\ (vcall.op = "validate" /\ vcall.failed = "connect") =>
          /\ vcall.connects = 1 /\ vcall.dbcalls = 0
          /\ NeedsConnection
          /\ IF vcall.returned
             THEN /\ ~vcall.is_valid
                  /\ vcall.type \in {"operational", "unknown"}
                  /\ vcall.type = "operational" <=> vcall.code \in {1045, 2003}
                  /\ vcall.type = "unknown" <=> vcall.code = 0 - 1
             ELSE vcall.exc = "ValueError"

C10_Witness ==
    /\ Returned /\ ~call.parallel
    /\ single.outcome = "connect_error"
    /\ ~ret.success

C10_WitnessPartition ==
    /\ Returned /\ Split
    /\ \E i \in TaskIds : tasks[i].outcome = "connect_error"
    /\ \E i \in TaskIds : tasks[i].outcome = "ok" /\ Len(tasks[i].rows) > 0

C10_WitnessValidate ==
    vcall.op = "validate" /\ vcall.failed = "connect" /\ vcall.type = "operational" /\ ~vdb

-----------------------------------------------------------------------------
(* Properties of SchemaGraph                                                *)

\* the tables one edge away from n when the edges are read as undirected
UNeighbors(g, n) == {v \in g.nodes : <<n, v>> \in g.edges \/ <<v, n>> \in g.edges}

RECURSIVE UWithin(_, _, _)
UWithin(g, a, k) ==
    IF k = 0 THEN {a}
    ELSE LET prev == UWithin(g, a, k - 1) IN
         prev \cup UNION {UNeighbors(g, n) : n \in prev}

\* a and b are joined by some path of edges read as undirected
UConnected(g, a, b) == b \in UWithin(g, a, Cardinality(g.nodes))

\* the walks of exactly k edges from a to b
WalksOfLength(g, a, b, k) ==
    {p \in [1..(k + 1) -> g.nodes] : p[1] = a /\ p[k + 1] = b /\ IsPath(g, p)}

JoinPathAnswered == glookup.op = "find_join_path"
JoinPathFound == JoinPathAnswered /\ glookup.status = "found"

\* C13: find_join_path(a, b) is None exactly when a or b is no node of the
\* graph or no path connects them with the edges read as undirected;
\* otherwise hop_count = len(path) - 1 = len(joins), the path runs from a to
\* b, and the i-th join goes from path[i] to path[i+1] along an edge of the
\* graph and carries that edge's join condition.
C13_JoinPathShape ==
    JoinPathAnswered =>
        LET a == glookup.args[1]
            b == glookup.args[2]
            r == glookup.value
        IN /\ glookup.status \in {"None", "found"}
           /\ glookup.status = "None" <=>
                 \/ a \notin graph.nodes
                 \/ b \notin graph.nodes
                 \/ ~UConnected(graph, a, b)
           /\ glookup.status = "found" =>
                 /\ r.hop_count = Len(r.path) - 1
                 /\ r.hop_count = Len(r.joins)
                 /\ r.path[1] = a
                 /\ r.path[Len(r.path)] = b
                 /\ \A i \in 1..Len(r.joins) :
                       /\ r.joins[i].from = r.path[i]
                       /\ r.joins[i].to = r.path[i + 1]
                       /\ <<r.path[i], r.path[i + 1]>> \in graph.edges
                       /\ r.joins[i].condition =
                             graph.eattr[<<r.path[i], r.path[i + 1]>>].join_condition

\* a path of two joins was found against the direction the relationships
\* were declared in
C13_Witness ==
    /\ JoinPathFound
    /\ glookup.value.hop_count = 2
    /\ \A k \in 1..Len(meta.relationships) :
          meta.relationships[k].from[1] # glookup.args[1]

\* a lookup between two tables that no path connects answered None
C13_WitnessNoPath ==
    /\ JoinPathAnswered /\ glookup.status = "None"
    /\ glookup.args[1] \in graph.nodes /\ glookup.args[2] \in graph.nodes

\* C14: a result of find_join_path(a, b) has the fewest hops of all paths
\* from a to b, every edge counting one; for a = b in the graph the result is
\* path=[a], joins=[], hop_count=0.
C14_FewestHops ==
    JoinPathFound =>
        LET a == glookup.args[1]
            b == glookup.args[2]
            r == glookup.value
        IN /\ \A k \in 0..(r.hop_count - 1) : WalksOfLength(graph, a, b, k) = {}
           /\ a = b => r.path = <<a>> /\ r.joins = <<>> /\ r.hop_count = 0

\* a one-hop answer where a three-hop route exists as well
C14_Witness ==
    /\ JoinPathFound
    /\ glookup.value.hop_count = 1
    /\ \E p \in WalksOfLength(graph, glookup.args[1], glookup.args[2], 3) :
          \A i, j \in 1..4 : p[i] = p[j] => i = j

C14_WitnessSameTable ==
    JoinPathFound /\ glookup.args[1] = glookup.args[2]

MultiHopAnswered ==
    /\ glookup.op = "get_multi_hop_path"
    /\ glookup.status # "running"
    /\ Len(glookup.args) >= 2

\* C15: for a list T of two or more names get_multi_hop_path(T) is None if
\* some table of T is missing from the graph or the tables of T are not all
\* connected to each other; otherwise every table of T is in the returned
\* path and no two returned joins have the same ordered (from, to) pair.
C15_MultiHopCovers ==
    MultiHopAnswered =>
        LET T == glookup.args
            r == glookup.value
            joinable ==
                /\ \A k \in 1..Len(T) : T[k] \in graph.nodes
                /\ \A j, k \in 1..Len(T) : UConnected(graph, T[j], T[k])
        IN /\ glookup.status \in {"None", "found"}
           /\ glookup.status = "None" <=> ~joinable
           /\ glookup.status = "found" =>
                 /\ \A k \in 1..Len(T) : \E n \in 1..Len(r.path) : r.path[n] = T[k]
                 /\ \A m, n \in 1..Len(r.joins) :
                       (r.joins[m].from = r.joins[n].from /\ r.joins[m].to = r.joins[n].to)
                           => m = n

\* three distinct tables were joined through a table that was not asked for
C15_Witness ==
    /\ MultiHopAnswered /\ glookup.status = "found"
    /\ Len(glookup.args) = 3
    /\ \A j, k \in 1..3 : glookup.args[j] = glookup.args[k] => j = k
    /\ Len(glookup.value.path) = 4
    /\ Len(glookup.value.joins) = 3

\* the tables asked for are all present but not all connected
C15_WitnessApart ==
    /\ MultiHopAnswered /\ glookup.status = "None"
    /\ \A k \in 1..Len(glookup.args) : glookup.args[k] \in graph.nodes

\* the two edges a relationship stands for are in the graph as declared
EdgesOf(g, rel) ==
    LET A == rel.from[1]
        B == rel.to[1]
    IN /\ <<A, B>> \in g.edges
       /\ g.eattr[<<A, B>>].join_condition = <<rel.from, "=", rel.to>>
       /\ g.eattr[<<A, B>>].from_col = rel.from[2]
       /\ g.eattr[<<A, B>>].to_col = rel.to[2]
       /\ <<B, A>> \in g.edges
       /\ g.eattr[<<B, A>>].join_condition = <<rel.to, "=", rel.from>>
       /\ g.eattr[<<B, A>>].from_col = rel.to[2]
       /\ g.eattr[<<B, A>>].to_col = rel.from[2]

\* C16: after construction every relationship A.x -> B.y of the metadata,
\* however many relationships there are per pair of tables, has an edge
\* A->B with join condition 'A.x = B.y', from_col=x, to_col=y and an edge
\* B->A with join condition 'B.y = A.x', from_col=y, to_col=x.
C16_TwoEdgesPerRelationship ==
    \A k \in 1..Len(meta.relationships) : EdgesOf(graph, meta.relationships[k])

\* no later relationship names the same two tables as relationship k
LastOfItsPair(rels, k) ==
    \A j \in (k + 1)..Len(rels) :
        {rels[j].from[1], rels[j].to[1]} # {rels[k].from[1], rels[k].to[1]}

\* the last relationship declared for a pair of tables has its two edges
LastRelationshipHasEdges ==
    \A k \in 1..Len(meta.relationships) :
        LastOfItsPair(meta.relationships, k) => EdgesOf(graph, meta.relationships[k])

\* C17: after construction the nodes of the graph are exactly the table
\* names of the metadata's tables mapping, each with that table's
\* description, source and columns, whatever tables the relationships name;
\* and list_tables returns exactly these tables.
C17_NodesAreTables ==
    /\ graph.nodes = DOMAIN meta.tables
    /\ \A n \in DOMAIN meta.tables :
          /\ n \in graph.nodes
          /\ graph.nattr[n].description = meta.tables[n].description
          /\ graph.nattr[n].source = meta.tables[n].source
          /\ graph.nattr[n].columns = meta.tables[n].columns
    /\ glookup.op = "list_tables" =>
          glookup.value = {[name |-> n, description |-> meta.tables[n].description] :
                              n \in DOMAIN meta.tables}

\* every declared table is a node with its attributes, and list_tables
\* lists the nodes
DeclaredTablesAreNodes ==
    /\ \A n \in DOMAIN meta.tables :
          /\ n \in graph.nodes
          /\ graph.nattr[n].description = meta.tables[n].description
          /\ graph.nattr[n].source = meta.tables[n].source
          /\ graph.nattr[n].columns = meta.tables[n].columns
    /\ glookup.op = "list_tables" =>
          {e.name : e \in glookup.value} = graph.nodes

\* list_tables has listed a table that the tables mapping does not declare
UndeclaredTableListed ==
    /\ glookup.op = "list_tables"
    /\ \E e \in glookup.value : e.name \notin DOMAIN meta.tables

-----------------------------------------------------------------------------
(* Properties of execute_with_limit                                         *)

\* call c handed over the given text without its trailing semicolons, followed
\* by " LIMIT " and the limit in decimal
LimitAppended(c) ==
    \E n \in 0..Len(c.given) :
        /\ \A i \in (n + 1)..Len(c.given) : c.given[i] = ";"
        /\ n = 0 \/ c.given[n] # ";"
        /\ c.sql = SubSeq(c.given, 1, n)
                   \o <<" ", "L", "I", "M", "I", "T", " ">> \o Str(c.limit)

\* the first three parts of C21: unpartitioned always, the statement as given
\* when it holds a LIMIT <digits> clause, else with the limit appended
LimitCallAsDescribed(c) ==
    /\ ~c.parallel
    /\ HasLimitClause(c.given) => c.sql = c.given
    /\ ~HasLimitClause(c.given) => LimitAppended(c)

\* C21 as stated: execute_with_limit executes sql with ' LIMIT <limit>'
\* appended after stripping trailing semicolons when sql contains no
\* 'LIMIT <digits>' clause, executes sql unchanged when it contains one,
\* always with parallel=False; and a statement that an earlier call has
\* rewritten is handed over unchanged by any later call (idempotence).
C21_LimitRewriteIdempotent ==
    \A j \in 1..Len(lcalls) :
        /\ LimitCallAsDescribed(lcalls[j])
        /\ \A i \in 1..(j - 1) :
               lcalls[j].given = lcalls[i].sql => lcalls[j].sql = lcalls[j].given

\* C21 amended: the same, with idempotence for the statements the rewrite
\* left alone and for those it extended with a limit that is not negative.
C21_LimitRewriteIdempotentFromZero ==
    \A j \in 1..Len(lcalls) :
        /\ LimitCallAsDescribed(lcalls[j])
        /\ \A i \in 1..(j - 1) :
               /\ lcalls[j].given = lcalls[i].sql
               /\ lcalls[i].limit >= 0 \/ HasLimitClause(lcalls[i].given)
               => lcalls[j].sql = lcalls[j].given

\* a statement ending in a semicolon got its limit, and came back unchanged
\* from a second call with another limit
C21_Witness ==
    /\ Len(lcalls) = 2
    /\ lcalls[1].given[Len(lcalls[1].given)] = ";"
    /\ ~HasLimitClause(lcalls[1].given)
    /\ lcalls[1].limit = 1000
    /\ lcalls[1].sql # lcalls[1].given
    /\ lcalls[2].given = lcalls[1].sql
    /\ lcalls[2].limit = 7
    /\ lcalls[2].sql = lcalls[1].sql

\* a negative limit is appended a second time
NegativeLimitAppendedTwice ==
    /\ Len(lcalls) = 2
    /\ lcalls[1].limit < 0 /\ lcalls[2].limit < 0
    /\ lcalls[2].given = lcalls[1].sql
    /\ lcalls[2].sql = AppendLimit(lcalls[1].sql, lcalls[2].limit)

-----------------------------------------------------------------------------
(* Properties of the loop of get_multi_hop_path                             *)

\* the tables of a path or list
TablesOf(p) == {p[k] : k \in 1..Len(p)}

\* p is a path of the graph from v to t with d edges
PathOfLength(p, v, t, d) ==
    Len(p) = d + 1 /\ p[1] = v /\ p[d + 1] = t /\ IsPath(graph, p)

\* d is the least number of edges from a visited table to a remaining one
LeastOverPairs(d) ==
    /\ \E v \in mh.visited_tables, t \in mh.remaining : t \in Within(graph, v, d)
    /\ \A v \in mh.visited_tables, t \in mh.remaining :
          \A j \in 0..(d - 1) : t \notin Within(graph, v, j)

\* the step is one loop iteration that chose path p to target t
IterationChose(p, t) ==
    LET visited == mh.visited_tables \cup TablesOf(p)
        asked == {mh.tables[k] : k \in 2..Len(mh.tables)}
    IN /\ mh.iterations + 1 <= Cardinality(asked)
       /\ IF mh.remaining = {t}
          THEN /\ ~mh'.active
               /\ glookup'.op = "get_multi_hop_path" /\ glookup'.status = "found"
               /\ TablesOf(glookup'.value.path) = visited
          ELSE /\ mh'.active
               /\ mh'.visited_tables = visited
               /\ mh'.remaining = mh.remaining \ {t}
               /\ mh'.iterations = mh.iterations + 1

\* the call enters its loop with the first table visited and the others
\* remaining
LoopEntered ==
    (~mh.active /\ mh'.active) =>
        /\ mh'.visited_tables = {mh'.tables[1]}
        /\ mh'.remaining = {mh'.tables[k] : k \in 2..Len(mh'.tables)}
        /\ mh'.iterations = 0

\* one iteration: None when no remaining table can be reached, else a path
\* of least length over all pairs is chosen
LoopIteration ==
    mh.active =>
        IF \A v \in mh.visited_tables, t \in mh.remaining : ~Reachable(graph, v, t)
        THEN ~mh'.active /\ glookup'.status = "None"
        ELSE \E v \in mh.visited_tables, t \in mh.remaining :
             \E d \in 0..Cardinality(graph.nodes) :
                /\ LeastOverPairs(d)
                /\ \E p \in [1..(d + 1) -> graph.nodes] :
                      PathOfLength(p, v, t, d) /\ IterationChose(p, t)

\* C23: get_multi_hop_path starts with visited = {tables[0]}; in each
\* iteration the chosen path is as short as the shortest path of any
\* (visited, remaining) pair, its tables all join visited and exactly its
\* target leaves remaining, so the loop makes at most as many iterations as
\* there are distinct tables in tables[1:].
C23_GreedyIteration == [][LoopEntered /\ LoopIteration]_vars

\* after one iteration that went through a table nobody asked for, one
\* table is still remaining
C23_Witness ==
    /\ mh.active /\ mh.iterations = 1
    /\ Cardinality(mh.visited_tables) = 3
    /\ Cardinality(mh.remaining) = 1
    /\ \E n \in mh.visited_tables : n \notin TablesOf(mh.tables)

\* get_multi_hop_path returned a plan
MultiHopPlanned == MultiHopAnswered /\ glookup.status = "found"

\* the tables a join list has attached before its m-th join, the root included
AttachedBefore(root, joins, m) == {root} \cup {joins[n].to : n \in 1..(m - 1)}

\* C27: every plan returned by get_multi_hop_path has
\* total_hops = len(joins) = len(path) - 1; path holds no table twice; every
\* table of path other than tables[0] is the 'to' of exactly one join, whose
\* 'from' comes earlier in path; each join attaches a new table to one
\* already listed (a tree rooted at tables[0]); no edge is recorded twice and
\* no two tables are joined in both directions.
C27_PlanIsTree ==
    MultiHopPlanned =>
        LET r == glookup.value
            root == glookup.args[1]
        IN /\ r.total_hops = Len(r.joins)
           /\ Len(r.joins) = Len(r.path) - 1
           /\ r.path[1] = root
           /\ \A j, k \in 1..Len(r.path) : r.path[j] = r.path[k] => j = k
           /\ \A k \in 2..Len(r.path) :
                 /\ Cardinality({m \in 1..Len(r.joins) : r.joins[m].to = r.path[k]}) = 1
                 /\ \A m \in 1..Len(r.joins) :
                       r.joins[m].to = r.path[k] =>
                           \E j \in 1..(k - 1) : r.path[j] = r.joins[m].from
           /\ \A m \in 1..Len(r.joins) :
                 /\ r.joins[m].from \in AttachedBefore(root, r.joins, m)
                 /\ r.joins[m].to \notin AttachedBefore(root, r.joins, m)
                 /\ <<r.joins[m].from, r.joins[m].to>> \in graph.edges
           /\ \A m, n \in 1..Len(r.joins) :
                 /\ (r.joins[m].from = r.joins[n].from /\ r.joins[m].to = r.joins[n].to)
                       => m = n
                 /\ ~(r.joins[m].from = r.joins[n].to /\ r.joins[m].to = r.joins[n].from)

\* a plan that branches: two of its three joins start from the same table,
\* which was not asked for
C27_Witness ==
    /\ MultiHopPlanned
    /\ Len(glookup.value.joins) = 3
    /\ \E m, n \in 1..3 :
          /\ m # n
          /\ glookup.value.joins[m].from = glookup.value.joins[n].from
          /\ \A k \in 1..Len(glookup.args) :
                glookup.args[k] # glookup.value.joins[m].from

\* get_multi_hop_path was asked for two different tables
MultiHopOfTwo ==
    /\ MultiHopAnswered
    /\ Len(glookup.args) = 2
    /\ glookup.args[1] # glookup.args[2]

\* C28: for two distinct tables a and b, get_multi_hop_path([a, b]) is None
\* exactly when find_join_path(a, b) is None, and otherwise has the path and
\* the joins of find_join_path(a, b) and its hop_count as total_hops.  (Both
\* ask nx.shortest_path the same question; for each path it may answer with,
\* the two results agree.)
C28_TwoTablesAsFindJoinPath ==
    MultiHopOfTwo =>
        LET a == glookup.args[1]
            b == glookup.args[2]
            sp == ShortestPaths(graph, a, b)
            find_is_none == ~BothInGraph(graph, a, b) \/ sp.status = "NetworkXNoPath"
        IN /\ glookup.status \in {"None", "found"}
           /\ glookup.status = "None" <=> find_is_none
           /\ glookup.status = "found" =>
                 \E p \in sp.paths :
                    LET f == JoinPathResult(graph, a, b, sp, p) IN
                    /\ f.status = "found"
                    /\ glookup.value.path = f.value.path
                    /\ glookup.value.joins = f.value.joins
                    /\ glookup.value.total_hops = f.value.hop_count

\* two tables two hops apart, with two shortest paths between them
C28_Witness ==
    /\ MultiHopOfTwo /\ glookup.status = "found"
    /\ glookup.value.total_hops = 2
    /\ Cardinality(ShortestPaths(graph, glookup.args[1], glookup.args[2]).paths) = 2

\* two tables of the graph with no path between them
C28_WitnessApart ==
    /\ MultiHopOfTwo /\ glookup.status = "None"
    /\ BothInGraph(graph, glookup.args[1], glookup.args[2])

-----------------------------------------------------------------------------
(* Properties of concurrent lookups                                         *)

\* get_multi_hop_path run alone from the top of its loop: every answer the
\* loop can end with
RECURSIVE AloneMultiHop(_, _, _)
AloneMultiHop(g, tables, m) ==
    IF m.remaining = {}
    THEN {Lookup("get_multi_hop_path", tables, "found",
                 [tables |-> tables, path |-> m.ordered_path,
                  joins |-> m.all_joins, total_hops |-> Len(m.all_joins)])}
    ELSE LET pairs == m.visited_tables \X m.remaining
             joined == {pr \in pairs : ShortestPaths(g, pr[1], pr[2]).status = "ok"}
             best == {pr \in joined : \A other \in joined :
                         Distance(g, pr[1], pr[2]) <= Distance(g, other[1], other[2])}
         IN IF \E pr \in pairs : ShortestPaths(g, pr[1], pr[2]).status = "NodeNotFound"
            THEN {Lookup("get_multi_hop_path", tables, "raised", <<>>)}
            ELSE IF best = {}
            THEN {Lookup("get_multi_hop_path", tables, "None", <<>>)}
            ELSE UNION {UNION {AloneMultiHop(g, tables,
                            [all_joins |-> ExtendJoins(g, m.all_joins, bp, 1),
                             ordered_path |-> ExtendPath(m.ordered_path, bp, 1),
                             visited_tables |-> m.visited_tables
                                                  \cup {bp[k] : k \in 1..Len(bp)},
                             remaining |-> m.remaining \ {pr[2]}]) :
                          bp \in ShortestPaths(g, pr[1], pr[2]).paths} : pr \in best}

\* the answers a lookup has when it runs with no other call beside it, on the
\* graph as _build_graph made it
AnswersAlone(m, op, args) ==
    LET g == BuildGraph(m) IN
    CASE op = "get_table_info" ->
           {IF args[1] \in g.nodes
            THEN Lookup(op, args, "found", TableInfoValue(g, args[1]))
            ELSE Lookup(op, args, "None", <<>>)}
      [] op = "list_tables" ->
           {Lookup(op, args, "found",
                   {[name |-> n, description |-> g.nattr[n].description] : n \in g.nodes})}
      [] op = "search_tables_by_keyword" ->
           {Lookup(op, args, "found",
                   [tables |-> {TableInfoValue(g, n) :
                                   n \in {v \in g.nodes : NodeMatches(g, v, Lower(args[1]))}},
                    glossary |-> GlossaryHits(m, Lower(args[1]))])}
      [] op \in {"find_join_path", "get_join_hint"} ->
           LET sp == ShortestPaths(g, args[1], args[2])
               found == IF sp.status = "NodeNotFound"
                        THEN {Lookup("find_join_path", args, "None", <<>>)}
                        ELSE IF sp.status = "NetworkXNoPath"
                        THEN {JoinPathResult(g, args[1], args[2], sp, <<>>)}
                        ELSE {JoinPathResult(g, args[1], args[2], sp, q) : q \in sp.paths}
           IN IF op = "find_join_path" THEN found
              ELSE {JoinHintResult(args[1], args[2], f) : f \in found}
      [] op = "get_multi_hop_path" ->
           IF Len(args) < 2 \/ \E k \in 1..Len(args) : args[k] \notin g.nodes
           THEN {Lookup(op, args, "None", <<>>)}
           ELSE AloneMultiHop(g, args,
                              [all_joins |-> <<>>, ordered_path |-> <<args[1]>>,
                               visited_tables |-> {args[1]},
                               remaining |-> {args[k] : k \in 2..Len(args)}])
      [] OTHER -> {}

\* the lookup that returned last gave an answer it also gives when run alone
AnsweredAsAlone ==
    (glookup # NoLookup /\ glookup.status # "running") =>
        glookup \in AnswersAlone(meta, glookup.op, glookup.args)

\* no step changes the nodes, the edges, their attributes or the metadata
LookupsLeaveGraph == graph' = graph /\ meta' = meta

\* C22: none of get_table_info, find_join_path, get_multi_hop_path,
\* search_tables_by_keyword, list_tables and get_join_hint changes the
\* graph's nodes, edges, edge attributes or the loaded metadata; hence calls
\* that interleave return what they return when they run one after another.
C22_LookupsReadOnly ==
    /\ [][LookupsLeaveGraph]_vars
    /\ [](graph = BuildGraph(meta))
    /\ []AnsweredAsAlone

\* in the middle of one caller's get_multi_hop_path loop another caller's
\* search returned tables and a glossary entry
C22_Witness ==
    /\ mh.active /\ Len(mh.all_joins) > 0 /\ mh.remaining # {}
    /\ glookup.op = "search_tables_by_keyword" /\ glookup.status = "found"
    /\ glookup.value.tables # {} /\ Len(glookup.value.glossary) > 0
    /\ graph = BuildGraph(meta)

-----------------------------------------------------------------------------
(* Properties of the handler calls                                          *)

\* the connections some handler's validator opened that are still open
OpenValidatorConns == {c \in 1..Len(vconns) : vconns[c].open}

CloseHandlerReturned == handler.last = "close_handler" /\ ~handler.raised

\* C30: for any sequence of init_handler, validate_sql and close_handler
\* calls, once close_handler has returned no validator connection opened
\* through a handler that init_handler installed is still open
C30_NoneOpenAfterCloseHandler ==
    CloseHandlerReturned => OpenValidatorConns = {}

\* close_handler has returned after init_handler had overwritten a handler
\* whose validator held an open connection, and that connection is open
C30_ReplacedHandlerLeftOpen ==
    /\ CloseHandlerReturned
    /\ handler.replaced
    /\ OpenValidatorConns # {}

\* as long as init_handler never overwrote an installed handler, nothing is
\* open once close_handler has returned
NoneOpenAfterCloseHandlerUnlessReplaced ==
    (CloseHandlerReturned /\ ~handler.replaced) => OpenValidatorConns = {}

\* after close_handler the connection of the handler it closed is not open:
\* all that is open belongs to handlers init_handler overwrote
OnlyReplacedHandlersLeftOpen ==
    CloseHandlerReturned => \A c \in OpenValidatorConns : Unreferenced(c) /\ handler.replaced

-----------------------------------------------------------------------------
(* Specifications.  The planner, the executor and the validator share no    *)
(* state, so each is explored with the others at rest.                      *)

InitPlanIdle == psql = <<>> /\ pplan = NoPlan /\ prewritten = <<>>
InitValIdle == vconn = 0 /\ vconns = <<>> /\ vcall = NoVCall /\ vdb = TRUE
InitGraphIdle ==
    /\ meta = Meta({}, <<>>)
    /\ graph = BuildGraph(meta)
    /\ glookup = NoLookup
    /\ mh = NoMultiHop

InitP == InitPlan /\ InitExec /\ InitValIdle /\ InitGraphIdle /\ InitLimit /\ InitHandlers
SpecPlan == InitP /\ [][NextPlan]_vars

InitE == InitExec /\ InitPlanIdle /\ InitValIdle /\ InitGraphIdle /\ InitLimit /\ InitHandlers
SpecExec == InitE /\ [][NextExec]_vars

InitV == InitVal /\ InitExec /\ InitPlanIdle /\ InitGraphIdle /\ InitLimit /\ InitHandlers
SpecVal == InitV /\ [][NextVal]_vars

InitG == InitGraph /\ InitExec /\ InitPlanIdle /\ InitValIdle /\ InitLimit /\ InitHandlers
SpecGraph == InitG /\ [][NextGraph]_vars

\* two components in one specification: a behaviour drives one of them and
\* leaves the other where it started
ExecAtRest == pc = "idle"
ValAtRest == vconn = 0 /\ vconns = <<>> /\ vcall = NoVCall
GraphAtRest == glookup = NoLookup /\ ~mh.active

\* the validator and the graph lookups
InitL == InitVal /\ InitGraph /\ InitExec /\ InitPlanIdle /\ InitLimit /\ InitHandlers
NextL ==
    \/ \E sql \in LookupSqls, co \in ConnectOutcomes(vdb), eo \in ExecuteOutcomes(vdb) :
          GraphAtRest /\ Validate(sql, co, eo)
    \/ GraphAtRest /\ Close
    \/ GraphAtRest /\ DbToggle
    \/ \E name \in LookupNames : ValAtRest /\ ~mh.active /\ GetTableInfo(name)
    \/ \E a \in LookupNames, b \in LookupNames :
          ValAtRest /\ ~mh.active /\ FindJoinPath(a, b)
    \/ \E tables \in TableLists : ValAtRest /\ MultiHopStart(tables)
    \/ ValAtRest /\ MultiHopStep
    \/ ValAtRest /\ ~mh.active /\ ListTables
SpecLookups == InitL /\ [][NextL]_vars

\* the executor and the validator
InitC == InitVal /\ InitExec /\ InitPlanIdle /\ InitGraphIdle /\ InitLimit /\ InitHandlers
NextC ==
    \/ \E sql \in ExecStatements, parallel \in BOOLEAN, w \in 1..MaxWorkersBound :
          ValAtRest /\ Call(sql, parallel, w)
    \/ \E fails \in BOOLEAN : ValAtRest /\ SingleConnect(fails)
    \/ \E fails \in BOOLEAN : ValAtRest /\ SingleRun(fails)
    \/ ValAtRest /\ SingleClose
    \/ ValAtRest /\ SingleReturn
    \/ ValAtRest /\ Submit
    \/ \E i \in TaskIds : ValAtRest /\ Pick(i)
    \/ \E i \in TaskIds, fails \in BOOLEAN : ValAtRest /\ TaskConnect(i, fails)
    \/ \E i \in TaskIds, fails \in BOOLEAN : ValAtRest /\ TaskRun(i, fails)
    \/ \E i \in TaskIds : ValAtRest /\ TaskClose(i)
    \/ \E i \in TaskIds : ValAtRest /\ TaskFinish(i)
    \/ ValAtRest /\ EnterCollect
    \/ \E i \in TaskIds : ValAtRest /\ Collect(i)
    \/ ValAtRest /\ ParallelReturn
    \/ \E sql \in ValSqls, co \in ConnectOutcomes(vdb), eo \in ExecuteOutcomes(vdb) :
          ExecAtRest /\ Validate(sql, co, eo)
    \/ ExecAtRest /\ Close
    \/ ExecAtRest /\ DbToggle
SpecConn == InitC /\ [][NextC]_vars

\* execute_with_limit on its own
InitLim ==
    InitLimit /\ InitExec /\ InitPlanIdle /\ InitValIdle /\ InitGraphIdle /\ InitHandlers
SpecLimit == InitLim /\ [][NextLimit]_vars

\* the lookups of several callers
SpecReaders == InitG /\ [][NextReaders]_vars

\* the handler calls of agent/tools.py
InitH == InitVal /\ InitHandlers /\ InitExec /\ InitPlanIdle /\ InitGraphIdle /\ InitLimit
SpecHandlers == InitH /\ [][NextHandlers]_vars

====
